---- MODULE Spec2Model ----
(***************************************************************************)
(* A model of coder/ai-tokenizer: the BPE engine of src/src/tokenizer.ts   *)
(* (encode, encodeOrdinary, decode, count, the piece cache, bytePairMerge) *)
(* and the prompt accountant of src/src/sdk.ts (count and its helpers).    *)
(*                                                                         *)
(* Strings are sequences of UTF-16 code units, as in JavaScript; byte      *)
(* arrays are sequences of 0..255.  JavaScript indexes from 0, TLA+ from   *)
(* 1: an operator that takes or returns an index says which one it uses.   *)
(***************************************************************************)
EXTENDS Integers, Sequences, FiniteSets, TLC

VARIABLES
  enc,                \* index of the Encoding the engine was constructed over
  mergeCacheSize,     \* Tokenizer.mergeCacheSize
  mergeCache,         \* Tokenizer.mergeCache: entries in insertion order
  cacheBefore,        \* mergeCache as it was when the last call was made
  op,                 \* the last operation called
  text,               \* its string argument
  allowedSpecial,     \* encode's allowedSpecial argument
  disallowedSpecial,  \* encode's disallowedSpecial argument
  piece,              \* bytePairMerge's byte array argument
  tokens,             \* decode's argument
  res,                \* what the operation returned (or that it threw)
  options,            \* the CountOptions the accountant was called with
  countResult,        \* the CountResult it returned
  driver,             \* the calibration script: its configs, the file, its loop
  page                \* the demo page: its queue flags and the worker's inbox

tokVars == <<enc, mergeCacheSize, mergeCache, cacheBefore, op, text, allowedSpecial,
             disallowedSpecial, piece, tokens, res>>

acctVars == <<options, countResult>>

vars == <<tokVars, acctVars, driver, page>>

----------------------------------------------------------------------------
(* Bounds of the model.                                                    *)

MaxTextLen == 2      \* code units in a text given to the engine
MaxPieceLen == 4     \* bytes in a piece given to bytePairMerge
MaxTokens == 3       \* ranks in a sequence given to decode
MaxMessages == 2     \* messages in the options given to the accountant
MaxParts == 2        \* parts in the content of a message
MaxProps == 2        \* properties in the shape of an object schema
MaxTools == 2        \* tools in the options given to the accountant

----------------------------------------------------------------------------
(* Sequences.                                                              *)

SeqsUpTo(S, n) == UNION {[1..k -> S] : k \in 0..n}

\* The element of a singleton set: The({f(x) : x \in {v}}) is f(v), for the
\* value v that the code holds in its local variable x.
The(S) == CHOOSE x \in S : TRUE

\* JavaScript's subarray(from, to) / substring(from, to): 0-based, to excluded.
Slice(s, from, to) == SubSeq(s, from + 1, to)

----------------------------------------------------------------------------
(* UTF-8 and UTF-16: TextEncoder, TextDecoder, isValidUTF8.                *)

IsCont(b) == b >= 128 /\ b <= 191        \* (b & 0xc0) === 0x80

\* The UTF-8 bytes of one code point.
Utf8OfCodePoint(cp) ==
  IF cp < 128 THEN <<cp>>
  ELSE IF cp < 2048 THEN <<192 + (cp \div 64), 128 + (cp % 64)>>
  ELSE IF cp < 65536
    THEN <<224 + (cp \div 4096), 128 + ((cp \div 64) % 64), 128 + (cp % 64)>>
  ELSE <<240 + (cp \div 262144), 128 + ((cp \div 4096) % 64),
         128 + ((cp \div 64) % 64), 128 + (cp % 64)>>

IsHighSurrogate(u) == u >= 55296 /\ u <= 56319
IsLowSurrogate(u) == u >= 56320 /\ u <= 57343

\* textEncoder.encode(str): UTF-16 to UTF-8; an unpaired surrogate becomes
\* U+FFFD.
RECURSIVE TextEncode(_)
TextEncode(s) ==
  IF s = <<>> THEN <<>>
  ELSE LET u == Head(s) IN
    IF IsHighSurrogate(u) /\ Len(s) >= 2 /\ IsLowSurrogate(s[2])
      THEN Utf8OfCodePoint(65536 + (u - 55296) * 1024 + (s[2] - 56320))
             \o TextEncode(Tail(Tail(s)))
    ELSE IF IsHighSurrogate(u) \/ IsLowSurrogate(u)
      THEN Utf8OfCodePoint(65533) \o TextEncode(Tail(s))
    ELSE Utf8OfCodePoint(u) \o TextEncode(Tail(s))

\* The code units of one code point.
Utf16OfCodePoint(cp) ==
  IF cp < 65536 THEN <<cp>>
  ELSE <<55296 + ((cp - 65536) \div 1024), 56320 + ((cp - 65536) % 1024)>>

\* One step of the UTF-8 decoder at the head of b: the code point it emits
\* and the bytes it consumes.  An ill-formed sequence emits U+FFFD for its
\* maximal well-formed prefix.
Utf8Step(b) ==
  LET b1 == b[1]
      n == Len(b)
      lo2 == IF b1 = 224 THEN 160 ELSE IF b1 = 240 THEN 144 ELSE 128
      hi2 == IF b1 = 237 THEN 159 ELSE IF b1 = 244 THEN 143 ELSE 191
      ok2 == n >= 2 /\ b[2] >= lo2 /\ b[2] <= hi2
      ok3 == n >= 3 /\ IsCont(b[3])
      ok4 == n >= 4 /\ IsCont(b[4])
      bad(k) == [cp |-> 65533, used |-> k]
  IN IF b1 <= 127 THEN [cp |-> b1, used |-> 1]
     ELSE IF b1 >= 194 /\ b1 <= 223 THEN
       IF ok2 THEN [cp |-> (b1 - 192) * 64 + (b[2] - 128), used |-> 2]
       ELSE bad(1)
     ELSE IF b1 >= 224 /\ b1 <= 239 THEN
       IF ~ok2 THEN bad(1)
       ELSE IF ~ok3 THEN bad(2)
       ELSE [cp |-> (b1 - 224) * 4096 + (b[2] - 128) * 64 + (b[3] - 128),
             used |-> 3]
     ELSE IF b1 >= 240 /\ b1 <= 244 THEN
       IF ~ok2 THEN bad(1)
       ELSE IF ~ok3 THEN bad(2)
       ELSE IF ~ok4 THEN bad(3)
       ELSE [cp |-> (b1 - 240) * 262144 + (b[2] - 128) * 4096
                      + (b[3] - 128) * 64 + (b[4] - 128),
             used |-> 4]
     ELSE bad(1)

RECURSIVE Utf8DecodeAll(_)
Utf8DecodeAll(b) ==
  IF b = <<>> THEN <<>>
  ELSE LET emit(st) ==
             Utf16OfCodePoint(st.cp) \o Utf8DecodeAll(SubSeq(b, st.used + 1, Len(b)))
       IN emit(Utf8Step(b))

\* textDecoder.decode(bytes), for textDecoder = new TextDecoder("utf-8"):
\* ignoreBOM is false, so a U+FEFF that starts the output is dropped.
TextDecode(b) ==
  LET stripBOM(s) == IF s # <<>> /\ Head(s) = 65279 THEN Tail(s) ELSE s
  IN stripBOM(Utf8DecodeAll(b))

\* isValidUTF8(bytes), from position i (1-based) on.
RECURSIVE IsValidUTF8From(_, _)
IsValidUTF8From(b, i) ==
  IF i > Len(b) THEN TRUE
  ELSE
    LET byte1 == b[i]
        lead(numBytes) == IF numBytes = 1 THEN byte1
                          ELSE IF numBytes = 2 THEN byte1 - 192
                          ELSE IF numBytes = 3 THEN byte1 - 224
                          ELSE byte1 - 240
        contOk(numBytes) == \A j \in 1..(numBytes - 1) : IsCont(b[i + j])
        codePointOf(numBytes, ld) ==
          IF numBytes = 1 THEN ld
          ELSE IF numBytes = 2 THEN ld * 64 + (b[i + 1] - 128)
          ELSE IF numBytes = 3
            THEN ld * 4096 + (b[i + 1] - 128) * 64 + (b[i + 2] - 128)
          ELSE ld * 262144 + (b[i + 1] - 128) * 4096
                 + (b[i + 2] - 128) * 64 + (b[i + 3] - 128)
        scalar(numBytes, codePoint) ==
          IF numBytes = 2 /\ codePoint < 128 THEN FALSE
          ELSE IF numBytes = 3 /\ codePoint < 2048 THEN FALSE
          ELSE IF numBytes = 4 /\ codePoint < 65536 THEN FALSE
          ELSE IF codePoint >= 55296 /\ codePoint <= 57343 THEN FALSE
          ELSE IF codePoint > 1114111 THEN FALSE
          ELSE IsValidUTF8From(b, i + numBytes)
        sequence(numBytes) ==
          IF numBytes = 0 THEN FALSE
          ELSE IF numBytes = 2 /\ byte1 <= 193 THEN FALSE
          ELSE IF numBytes = 4 /\ byte1 > 244 THEN FALSE
          ELSE IF i + numBytes - 1 > Len(b) THEN FALSE
          ELSE IF ~contOk(numBytes) THEN FALSE
          ELSE scalar(numBytes, codePointOf(numBytes, lead(numBytes)))
    IN sequence(IF byte1 <= 127 THEN 1
                ELSE IF byte1 >= 192 /\ byte1 <= 223 THEN 2   \* & 0xe0 = 0xc0
                ELSE IF byte1 >= 224 /\ byte1 <= 239 THEN 3   \* & 0xf0 = 0xe0
                ELSE IF byte1 >= 240 /\ byte1 <= 247 THEN 4   \* & 0xf8 = 0xf0
                ELSE 0)

isValidUTF8(b) == IsValidUTF8From(b, 1)

\* tryBytesToString(bytes): [ok, str]; ok = FALSE stands for undefined.
tryBytesToString(b) ==
  IF ~isValidUTF8(b) THEN [ok |-> FALSE, str |-> <<>>]
  ELSE [ok |-> TRUE, str |-> TextDecode(b)]

----------------------------------------------------------------------------
(* Encodings.  An Encoding is the data a Tokenizer is constructed over:    *)
(*   special_tokens  the literals and their ranks, in Object.keys order    *)
(*   stringEncoder   string -> rank, for tokens that are valid UTF-8       *)
(*   binaryEncoder   (bytes, rank) sorted by bytes, for the other tokens   *)
(*   decoder         rank -> the token's string or bytes                   *)
(* pat_str is the same in both: see patternMatchEnd below.                 *)
(* The two encodings used here are small vocabularies over the characters  *)
(* ' ' (32), '<' (60), 'a' (97), U+00E9 (233) and U+FEFF (65279); every    *)
(* byte of their UTF-8 forms has a rank.  Both also hold the tokens of the *)
(* strings the accountant encodes: "user", "to", "ol", "t", "o", "l", the  *)
(* double quote (34) and "{}".  As the generator of the tables does        *)
(* (scripts/find-best-tokenizer.ts, tryBytesToString), a token is held in  *)
(* stringEncoder when its bytes decode to a string that encodes back to    *)
(* them, and in binaryEncoder otherwise: the token of U+FEFF, whose bytes  *)
(* decode to the empty string, is a binary one.                            *)

Str(s) == [isString |-> TRUE, val |-> s]
Bin(b) == [isString |-> FALSE, val |-> b]

\* Special tokens "<a" and "<<"; tokens "aa", " a", " aa", U+00E9, U+FEFF.
EncodingA ==
  [special_tokens |-> << [lit |-> <<60, 97>>, rank |-> 100],
                         [lit |-> <<60, 60>>, rank |-> 101] >>,
   stringEncoder |->
     (<<32>> :> 0) @@ (<<60>> :> 1) @@ (<<97>> :> 2) @@
     (<<97, 97>> :> 9) @@ (<<32, 97>> :> 10) @@ (<<233>> :> 11) @@
     (<<32, 97, 97>> :> 14) @@
     (<<117, 115, 101, 114>> :> 15) @@ (<<116, 111>> :> 16) @@
     (<<111, 108>> :> 17) @@ (<<116>> :> 18) @@ (<<111>> :> 19) @@
     (<<108>> :> 20) @@ (<<34>> :> 21) @@ (<<123, 125>> :> 22),
   binaryEncoder |-> << [bytes |-> <<169>>, rank |-> 3],
                        [bytes |-> <<187>>, rank |-> 4],
                        [bytes |-> <<191>>, rank |-> 5],
                        [bytes |-> <<195>>, rank |-> 6],
                        [bytes |-> <<239>>, rank |-> 7],
                        [bytes |-> <<239, 187>>, rank |-> 12],
                        [bytes |-> <<239, 187, 191>>, rank |-> 13] >>,
   decoder |->
     (0 :> Str(<<32>>)) @@ (1 :> Str(<<60>>)) @@ (2 :> Str(<<97>>)) @@
     (3 :> Bin(<<169>>)) @@ (4 :> Bin(<<187>>)) @@ (5 :> Bin(<<191>>)) @@
     (6 :> Bin(<<195>>)) @@ (7 :> Bin(<<239>>)) @@
     (9 :> Str(<<97, 97>>)) @@ (10 :> Str(<<32, 97>>)) @@
     (11 :> Str(<<233>>)) @@ (12 :> Bin(<<239, 187>>)) @@
     (13 :> Bin(<<239, 187, 191>>)) @@ (14 :> Str(<<32, 97, 97>>)) @@
     (15 :> Str(<<117, 115, 101, 114>>)) @@ (16 :> Str(<<116, 111>>)) @@
     (17 :> Str(<<111, 108>>)) @@ (18 :> Str(<<116>>)) @@
     (19 :> Str(<<111>>)) @@ (20 :> Str(<<108>>)) @@ (21 :> Str(<<34>>)) @@
     (22 :> Str(<<123, 125>>))]

\* No special tokens; " a" merges before "aa"; "<<" and "a<" are ordinary
\* tokens; U+00E9 has no token of its own, and the token of the bytes of
\* U+FEFF is held in binaryEncoder.
EncodingB ==
  [special_tokens |-> << >>,
   stringEncoder |->
     (<<32>> :> 0) @@ (<<60>> :> 1) @@ (<<97>> :> 2) @@
     (<<32, 97>> :> 8) @@ (<<97, 97>> :> 9) @@ (<<60, 60>> :> 10) @@
     (<<97, 60>> :> 11) @@
     (<<117, 115, 101, 114>> :> 15) @@ (<<116, 111>> :> 16) @@
     (<<111, 108>> :> 17) @@ (<<116>> :> 18) @@ (<<111>> :> 19) @@
     (<<108>> :> 20) @@ (<<34>> :> 21) @@ (<<123, 125>> :> 22),
   binaryEncoder |-> << [bytes |-> <<169>>, rank |-> 3],
                        [bytes |-> <<187>>, rank |-> 4],
                        [bytes |-> <<187, 191>>, rank |-> 12],
                        [bytes |-> <<191>>, rank |-> 5],
                        [bytes |-> <<195>>, rank |-> 6],
                        [bytes |-> <<239>>, rank |-> 7],
                        [bytes |-> <<239, 187, 191>>, rank |-> 13] >>,
   decoder |->
     (0 :> Str(<<32>>)) @@ (1 :> Str(<<60>>)) @@ (2 :> Str(<<97>>)) @@
     (3 :> Bin(<<169>>)) @@ (4 :> Bin(<<187>>)) @@ (5 :> Bin(<<191>>)) @@
     (6 :> Bin(<<195>>)) @@ (7 :> Bin(<<239>>)) @@
     (13 :> Bin(<<239, 187, 191>>)) @@
     (8 :> Str(<<32, 97>>)) @@ (9 :> Str(<<97, 97>>)) @@
     (10 :> Str(<<60, 60>>)) @@ (11 :> Str(<<97, 60>>)) @@
     (12 :> Bin(<<187, 191>>)) @@
     (15 :> Str(<<117, 115, 101, 114>>)) @@ (16 :> Str(<<116, 111>>)) @@
     (17 :> Str(<<111, 108>>)) @@ (18 :> Str(<<116>>)) @@
     (19 :> Str(<<111>>)) @@ (20 :> Str(<<108>>)) @@ (21 :> Str(<<34>>)) @@
     (22 :> Str(<<123, 125>>))]

Encodings == <<EncodingA, EncodingB>>

\* The encoding the engine was constructed over.
E == Encodings[enc]

\* The characters of the texts and the bytes of the pieces.
Chars == {32, 60, 97, 233, 65279}
Bytes == {32, 97, 169, 187, 191, 195, 239}

\* Texts in which special token literals overlap, follow one another and
\* stand between ordinary text: "<<a", "a<a", "<a<a".
ScanTexts == {<<60, 60, 97>>, <<97, 60, 97>>, <<60, 97, 60, 97>>}

Texts == SeqsUpTo(Chars, MaxTextLen) \cup ScanTexts
Pieces == SeqsUpTo(Bytes, MaxPieceLen) \ {<<>>}

----------------------------------------------------------------------------
(* Rank lookup: the constructor's first-byte index, binarySearchBytes and  *)
(* bytePairMerge's getRankForSlice.                                        *)

\* 0xffffffff in the source.  TLC's integers end at 2^31 - 1; the code uses
\* NO_RANK only as a value larger than every rank.
NO_RANK == 2147483647

\* binaryFirstByteIndex[first]: the entries of binaryEncoder whose first byte
\* is `first`, in binaryEncoder's order; <<>> stands for null.
binaryFirstByteIndex(e, first) ==
  SelectSeq(e.binaryEncoder,
            LAMBDA entry : Len(entry.bytes) > 0 /\ entry.bytes[1] = first)

\* The comparison of binarySearchBytes: midKey against key, <0, 0 or >0.
RECURSIVE CompareBytes(_, _, _)
CompareBytes(midKey, key, i) ==   \* i is 1-based
  LET maxLen == IF Len(midKey) < Len(key) THEN Len(midKey) ELSE Len(key)
  IN IF i > maxLen THEN Len(midKey) - Len(key)
     ELSE IF midKey[i] - key[i] # 0 THEN midKey[i] - key[i]
     ELSE CompareBytes(midKey, key, i + 1)

\* binarySearchBytes(sortedArray, key) between low and high (0-based); -1
\* when the key is not found.
RECURSIVE BinarySearchFrom(_, _, _, _)
BinarySearchFrom(sortedArray, key, low, high) ==
  IF low > high THEN -1
  ELSE LET mid == (low + high) \div 2
           branch(cmp) ==
             IF cmp = 0 THEN sortedArray[mid + 1].rank
             ELSE IF cmp < 0 THEN BinarySearchFrom(sortedArray, key, mid + 1, high)
             ELSE BinarySearchFrom(sortedArray, key, low, mid - 1)
       IN branch(CompareBytes(sortedArray[mid + 1].bytes, key, 1))

binarySearchBytes(sortedArray, key) ==
  BinarySearchFrom(sortedArray, key, 0, Len(sortedArray) - 1)

\* getRankForSlice(slice), for a slice that is not empty.
getRankForSlice(e, slice) ==
  LET search(bucket) ==
        IF bucket # <<>> THEN binarySearchBytes(bucket, slice) ELSE -1
      rankOf(asString, found) ==
        IF asString.ok /\ asString.str \in DOMAIN e.stringEncoder
          THEN e.stringEncoder[asString.str]
        ELSE IF found # -1 THEN found
        ELSE NO_RANK
  IN rankOf(tryBytesToString(slice), search(binaryFirstByteIndex(e, slice[1])))

----------------------------------------------------------------------------
(* bytePairMerge.  starts and ranks are the function's two arrays; their   *)
(* JavaScript index j is the TLA+ index j + 1.                             *)

RemoveAt(s, j) == SubSeq(s, 1, j) \o SubSeq(s, j + 2, Len(s))   \* splice(j, 1)

\* getRank(startIndex) with pairStart and pairEnd read from starts.
getRank(e, bytes, starts, startIndex) ==
  IF startIndex + 2 >= Len(starts) THEN NO_RANK       \* pairEnd === undefined
  ELSE getRankForSlice(e, Slice(bytes, starts[startIndex + 1],
                                starts[startIndex + 3]))

\* The arrays after the initialisation loop.
InitStarts(bytes) == [j \in 1..(Len(bytes) + 1) |-> j - 1]

InitRanks(e, bytes) ==
  [j \in 1..(Len(bytes) + 1) |->
     IF j - 1 < Len(bytes) - 1
       THEN getRankForSlice(e, Slice(bytes, j - 1, j + 1))
       ELSE NO_RANK]

\* The scan for the minimum rank: i runs over 0..ranksLen-1.
RECURSIVE MinScan(_, _, _, _)
MinScan(ranks, i, minRank, minIdx) ==
  IF i >= Len(ranks) - 1 THEN [minRank |-> minRank, minIdx |-> minIdx]
  ELSE IF ranks[i + 1] < minRank THEN MinScan(ranks, i + 1, ranks[i + 1], i)
  ELSE MinScan(ranks, i + 1, minRank, minIdx)

findMinRank(ranks) == MinScan(ranks, 0, NO_RANK, -1)

\* The main merge loop: the starts array when it ends.
RECURSIVE MergeLoop(_, _, _, _)
MergeLoop(e, bytes, starts, ranks) ==
  IF Len(starts) <= 1 THEN starts
  ELSE
    LET m == findMinRank(ranks)
        minIdx == m.minIdx
        starts1 == RemoveAt(starts, minIdx + 1)
        ranks1 == RemoveAt(ranks, minIdx)
        \* if (minIdx > 0) ranks[minIdx - 1] = getRank(minIdx - 1)
        updatePrev(ranks2) ==
          IF minIdx > 0
            THEN [ranks2 EXCEPT ![minIdx] = getRank(e, bytes, starts1, minIdx - 1)]
            ELSE ranks2
    IN IF m.minRank = NO_RANK \/ m.minIdx = -1 THEN starts
       ELSE MergeLoop(e, bytes, starts1,
                      updatePrev([ranks1 EXCEPT ![minIdx + 1] =
                                    getRank(e, bytes, starts1, minIdx)]))

\* The output loop: the rank of every final sub-token that has one.
RECURSIVE BuildOutput(_, _, _, _)
BuildOutput(e, bytes, starts, i) ==
  IF i >= Len(starts) - 1 THEN <<>>
  ELSE LET push(rank) == IF rank # NO_RANK THEN <<rank>> ELSE <<>>
       IN push(getRankForSlice(e, Slice(bytes, starts[i + 1], starts[i + 2])))
            \o BuildOutput(e, bytes, starts, i + 1)

bytePairMerge(e, bytes) ==
  BuildOutput(e, bytes,
              MergeLoop(e, bytes, InitStarts(bytes), InitRanks(e, bytes)), 0)

----------------------------------------------------------------------------
(* The reference greedy BPE procedure, over the rank table the encoding    *)
(* denotes: the bytes of every stringEncoder key and binaryEncoder entry.  *)

RefRank(e, bytes) ==
  IF \E k \in DOMAIN e.stringEncoder : TextEncode(k) = bytes
    THEN e.stringEncoder[CHOOSE k \in DOMAIN e.stringEncoder : TextEncode(k) = bytes]
  ELSE IF \E j \in 1..Len(e.binaryEncoder) : e.binaryEncoder[j].bytes = bytes
    THEN e.binaryEncoder[CHOOSE j \in 1..Len(e.binaryEncoder) :
                           e.binaryEncoder[j].bytes = bytes].rank
  ELSE NO_RANK

RECURSIVE RefBPE(_, _)
RefBPE(e, parts) ==
  LET pairRank(j) == RefRank(e, parts[j] \o parts[j + 1])
      pairs == 1..(Len(parts) - 1)
      ranked == {j \in pairs : pairRank(j) # NO_RANK}
  IN IF ranked = {} THEN [j \in 1..Len(parts) |-> RefRank(e, parts[j])]
     ELSE
       LET best == CHOOSE j \in ranked :
                     \A k \in ranked :
                       pairRank(j) < pairRank(k) \/ (pairRank(j) = pairRank(k) /\ j <= k)
       IN RefBPE(e, SubSeq(parts, 1, best - 1)
                      \o <<parts[best] \o parts[best + 1]>>
                      \o SubSeq(parts, best + 2, Len(parts)))

SingleBytes(bytes) == [j \in 1..Len(bytes) |-> <<bytes[j]>>]

\* The bytes of the token of a rank of the table.
BytesOfRank(e, rank) ==
  IF \E k \in DOMAIN e.stringEncoder : e.stringEncoder[k] = rank
    THEN TextEncode(CHOOSE k \in DOMAIN e.stringEncoder : e.stringEncoder[k] = rank)
    ELSE e.binaryEncoder[CHOOSE j \in 1..Len(e.binaryEncoder) :
                           e.binaryEncoder[j].rank = rank].bytes

\* The sub-tokens bytePairMerge ends its merge loop with: the slices of
\* the piece between consecutive starts.
FinalSubTokens(e, bytes) ==
  LET starts == MergeLoop(e, bytes, InitStarts(bytes), InitRanks(e, bytes))
  IN [j \in 1..(Len(starts) - 1) |-> Slice(bytes, starts[j], starts[j + 1])]

----------------------------------------------------------------------------
(* The piece cache: Tokenizer.mergeCache, a Map in insertion order.        *)

CacheHas(cache, key) == \E j \in 1..Len(cache) : cache[j].key = key

CacheGet(cache, key) ==
  cache[CHOOSE j \in 1..Len(cache) : cache[j].key = key].value

\* Map.delete of the first key, when the Map has one.
DeleteFirstKey(cache) == IF cache = <<>> THEN cache ELSE Tail(cache)

\* Map.set: a new key goes last, a key already there keeps its place.
MapSet(cache, key, value) ==
  IF CacheHas(cache, key)
    THEN [j \in 1..Len(cache) |->
            IF cache[j].key = key THEN [key |-> key, value |-> value] ELSE cache[j]]
    ELSE Append(cache, [key |-> key, value |-> value])

\* Reuses the oldest entry's slot instead of deleting it.
addToMergeCache_ReuseSlot(cache, size, key, value) ==
  IF Len(cache) >= size /\ cache # <<>>
    THEN MapSet(cache, cache[1].key, value)
    ELSE MapSet(cache, key, value)

\* Deletes the newest entry instead of the oldest one.
addToMergeCache_EvictNewest(cache, size, key, value) ==
  MapSet(IF Len(cache) >= size /\ cache # <<>>
           THEN SubSeq(cache, 1, Len(cache) - 1) ELSE cache, key, value)

addToMergeCache(cache, size, key, value) ==
  MapSet(IF Len(cache) >= size THEN DeleteFirstKey(cache) ELSE cache, key, value)

----------------------------------------------------------------------------
(* patternRegex.  pat_str is data of the encoding; both encodings use the  *)
(* r50k/p50k pattern                                                       *)
(*   's|'t|'re|'ve|'m|'ll|'d| ?\p{L}+| ?\p{N}+| ?[^\s\p{L}\p{N}]+          *)
(*   |\s+(?!\S)|\s+                                                        *)
(* Over Chars no apostrophe and no digit occurs, which leaves the letter,  *)
(* the other-character and the two white space alternatives.  In a         *)
(* JavaScript RegExp \s matches U+FEFF.                                    *)

IsSpace(c) == c \in {9, 10, 11, 12, 13, 32, 160, 65279}
IsLetter(c) == (c >= 65 /\ c <= 90) \/ (c >= 97 /\ c <= 122) \/ c = 233
IsDigit(c) == c >= 48 /\ c <= 57
IsOther(c) == ~IsSpace(c) /\ ~IsLetter(c) /\ ~IsDigit(c)

InClass(cls, c) ==
  IF cls = "L" THEN IsLetter(c)
  ELSE IF cls = "N" THEN IsDigit(c)
  ELSE IF cls = "O" THEN IsOther(c)
  ELSE IsSpace(c)

\* The last position (1-based) of the longest run of characters of class
\* cls that starts at i; i - 1 when there is none.
RECURSIVE RunEnd(_, _, _)
RunEnd(str, i, cls) ==
  IF i <= Len(str) /\ InClass(cls, str[i]) THEN RunEnd(str, i + 1, cls) ELSE i - 1

\* The last position (1-based) of the pattern's match at position i, or
\* i - 1 when the pattern does not match there.
patternMatchEnd(str, i) ==
  LET n == Len(str)
      optSpace(cls) ==     \* " ?cls+"
        IF str[i] = 32 /\ i + 1 <= n /\ InClass(cls, str[i + 1])
          THEN RunEnd(str, i + 1, cls)
        ELSE RunEnd(str, i, cls)
      spaces == RunEnd(str, i, "S")
  IN IF optSpace("L") >= i THEN optSpace("L")
     ELSE IF optSpace("N") >= i THEN optSpace("N")
     ELSE IF optSpace("O") >= i THEN optSpace("O")
     ELSE IF spaces >= i /\ spaces = n THEN spaces          \* \s+(?!\S)
     ELSE IF spaces > i THEN spaces - 1                     \* \s+(?!\S)
     ELSE spaces                                            \* \s+

\* regex.exec(text) with lastIndex = from - 1: the first match at or after
\* `from` (1-based), as [found, first, last].
RECURSIVE patternExec(_, _)
patternExec(str, from) ==
  IF from > Len(str) THEN [found |-> FALSE, first |-> 0, last |-> 0]
  ELSE LET matchAt(last) ==
             IF last >= from THEN [found |-> TRUE, first |-> from, last |-> last]
             ELSE patternExec(str, from + 1)
       IN matchAt(patternMatchEnd(str, from))

----------------------------------------------------------------------------
(* Ordinary encoding.  An encoding operator returns [out, cache]: the      *)
(* tokens appended and the piece cache it leaves.                          *)

HasStringRank(e, str) == str \in DOMAIN e.stringEncoder

\* The loop of encodeOrdinary over the pieces from position `from` on.
RECURSIVE OrdinaryLoop(_, _, _, _, _, _)
OrdinaryLoop(e, size, str, from, cache, out) ==
  LET onMatch(m) ==
        IF ~m.found THEN [out |-> out, cache |-> cache]
        ELSE
          LET pc == SubSeq(str, m.first, m.last)
              merged(toks) ==
                OrdinaryLoop(e, size, str, m.last + 1,
                             addToMergeCache(cache, size, pc, toks), out \o toks)
          IN IF HasStringRank(e, pc)
               THEN OrdinaryLoop(e, size, str, m.last + 1, cache,
                                 Append(out, e.stringEncoder[pc]))
             ELSE IF CacheHas(cache, pc)
               THEN OrdinaryLoop(e, size, str, m.last + 1, cache,
                                 out \o CacheGet(cache, pc))
             ELSE merged(bytePairMerge(e, TextEncode(pc)))
  IN onMatch(patternExec(str, from))

encodeOrdinary(e, size, cache, str) ==
  IF Len(str) < 10 /\ HasStringRank(e, str)
    THEN [out |-> <<e.stringEncoder[str]>>, cache |-> cache]
  ELSE OrdinaryLoop(e, size, str, 1, cache, <<>>)

\* bytePairEncode(input): [out, cache].  The variant merges nothing: it
\* returns the rank of each byte of the input.
bytePairEncode_NoMerge(e, size, cache, input) ==
  LET bytes == TextEncode(input)
  IN [out |-> [j \in 1..Len(bytes) |-> bytePairMerge(e, <<bytes[j]>>)[1]],
      cache |-> cache]

bytePairEncode(e, size, cache, input) ==
  IF CacheHas(cache, input)
    THEN [out |-> CacheGet(cache, input), cache |-> cache]
  ELSE LET store(result) ==
             [out |-> result, cache |-> addToMergeCache(cache, size, input, result)]
       IN store(bytePairMerge(e, TextEncode(input)))

\* The loop of encodeOrdinaryInto.
RECURSIVE IntoLoop(_, _, _, _, _, _)
IntoLoop(e, size, str, from, cache, out) ==
  LET onMatch(m) ==
        IF ~m.found THEN [out |-> out, cache |-> cache]
        ELSE
          LET pc == SubSeq(str, m.first, m.last)
              encoded(r) ==
                IntoLoop(e, size, str, m.last + 1, r.cache, out \o r.out)
          IN IF HasStringRank(e, pc)
               THEN IntoLoop(e, size, str, m.last + 1, cache,
                             Append(out, e.stringEncoder[pc]))
             ELSE encoded(bytePairEncode(e, size, cache, pc))
  IN onMatch(patternExec(str, from))

encodeOrdinaryInto(e, size, cache, str, result) ==
  IntoLoop(e, size, str, 1, cache, result)

----------------------------------------------------------------------------
(* Special tokens and encode.  An allowedSpecial or disallowedSpecial      *)
(* argument is [all, set]: all = TRUE stands for "all", otherwise set is   *)
(* the array given.                                                        *)

All == [all |-> TRUE, set |-> {}]
Only(S) == [all |-> FALSE, set |-> S]

specialTokenKeys(e) == [j \in 1..Len(e.special_tokens) |-> e.special_tokens[j].lit]
SpecialKeySet(e) == {e.special_tokens[j].lit : j \in 1..Len(e.special_tokens)}
hasSpecialTokens(e) == Len(e.special_tokens) > 0

\* this.specialTokens[lit]
specialTokenRank(e, lit) ==
  e.special_tokens[CHOOSE j \in 1..Len(e.special_tokens) :
                     e.special_tokens[j].lit = lit].rank

\* lit occurs in str at position i (1-based).
OccursAt(str, lit, i) ==
  i >= 1 /\ i + Len(lit) - 1 <= Len(str) /\ SubSeq(str, i, i + Len(lit) - 1) = lit

\* str contains one of the literals of S.
ContainsAny(str, S) == \E lit \in S : \E i \in 1..Len(str) : OccursAt(str, lit, i)

\* A RegExp that is the alternation of the literals keys (a sequence), run
\* by exec from position `from` (1-based): the first position where a
\* literal occurs and, there, the first literal of the alternation.
RECURSIVE alternationExec(_, _, _)
alternationExec(keys, str, from) ==
  IF from > Len(str) THEN [found |-> FALSE, index |-> 0, lit |-> <<>>]
  ELSE IF \E j \in 1..Len(keys) : OccursAt(str, keys[j], from)
    THEN [found |-> TRUE, index |-> from,
          lit |-> keys[CHOOSE j \in 1..Len(keys) :
                         /\ OccursAt(str, keys[j], from)
                         /\ \A k \in 1..(j - 1) : ~OccursAt(str, keys[k], from)]]
  ELSE alternationExec(keys, str, from + 1)

\* Goes on after the whole literal of a special token that is not allowed.
RECURSIVE findNextAllowed_SkipLiteral(_, _, _, _)
findNextAllowed_SkipLiteral(e, str, allowedSet, startFind) ==
  LET check(nextSpecial) ==
        IF ~nextSpecial.found \/ nextSpecial.lit \in allowedSet THEN nextSpecial
        ELSE findNextAllowed_SkipLiteral(e, str, allowedSet,
                                         nextSpecial.index + Len(nextSpecial.lit))
  IN check(alternationExec(specialTokenKeys(e), str, startFind))

\* The inner loop of encode: the next special token that is allowed, found
\* from startFind (1-based) on.
RECURSIVE findNextAllowed(_, _, _, _)
findNextAllowed(e, str, allowedSet, startFind) ==
  LET check(nextSpecial) ==
        IF ~nextSpecial.found \/ nextSpecial.lit \in allowedSet THEN nextSpecial
        ELSE findNextAllowed(e, str, allowedSet, nextSpecial.index + 1)
  IN check(alternationExec(specialTokenKeys(e), str, startFind))

\* The outer loop of encode; start is 1-based.
RECURSIVE ScanLoop(_, _, _, _, _, _, _)
ScanLoop(e, size, str, allowedSet, start, cache, out) ==
  IF start > Len(str) THEN [out |-> out, cache |-> cache]
  ELSE
    LET nextSpecial == findNextAllowed(e, str, allowedSet, start)
        end == IF nextSpecial.found THEN nextSpecial.index - 1 ELSE Len(str)
        emit(r) ==
          IF ~nextSpecial.found THEN r
          ELSE ScanLoop(e, size, str, allowedSet,
                        nextSpecial.index + Len(nextSpecial.lit), r.cache,
                        Append(r.out, specialTokenRank(e, nextSpecial.lit)))
    IN emit(encodeOrdinaryInto(e, size, cache, SubSeq(str, start, end), out))

\* The set encode checks the text against.  The variant takes "all" as
\* every special token, the allowed ones included.
disallowedSetOf_AllKeys(e, allowed, disallowed) ==
  IF disallowed.all THEN SpecialKeySet(e) ELSE disallowed.set

disallowedSetOf(e, allowed, disallowed) ==
  IF disallowed.all THEN {x \in SpecialKeySet(e) : x \notin allowed.set}
  ELSE disallowed.set

\* A call of encode that returns the result r of its encoding loop.
returned(r) == [threw |-> FALSE, out |-> r.out, cache |-> r.cache]

\* encode(text, allowedSpecial, disallowedSpecial): [threw, out, cache].
encode(e, size, cache, str, allowed, disallowed) ==
  IF ~hasSpecialTokens(e) \/ allowed.all
    THEN returned(encodeOrdinary(e, size, cache, str))
  ELSE
    LET disallowedSet == disallowedSetOf(e, allowed, disallowed) IN
    IF disallowedSet # {} /\ ContainsAny(str, disallowedSet)
      THEN [threw |-> TRUE, out |-> <<>>, cache |-> cache]
    ELSE returned(ScanLoop(e, size, str, allowed.set, 1, cache, <<>>))

\* count(input): encode with its default arguments, [] and "all".  The
\* variant allows every special token.
count_AllowAll(e, size, cache, input) == encode(e, size, cache, input, All, All)

count(e, size, cache, input) == encode(e, size, cache, input, Only({}), All)

----------------------------------------------------------------------------
(* decode.                                                                 *)

\* this.inverseSpecialTokens[rank] is defined.
IsSpecialRank(e, rank) ==
  \E j \in 1..Len(e.special_tokens) : e.special_tokens[j].rank = rank

\* this.inverseSpecialTokens[rank]: the bytes of the last literal with it.
inverseSpecialTokens(e, rank) ==
  TextEncode(e.special_tokens[
    CHOOSE j \in 1..Len(e.special_tokens) :
      /\ e.special_tokens[j].rank = rank
      /\ \A k \in (j + 1)..Len(e.special_tokens) :
           e.special_tokens[k].rank # rank].lit)

\* The token is neither in decoder nor a special token's rank.
IsUnknownRank(e, token) == token \notin DOMAIN e.decoder /\ ~IsSpecialRank(e, token)

\* this.decoder[token] ?? this.inverseSpecialTokens[token], for a known rank.
decoderValue(e, token) ==
  IF token \in DOMAIN e.decoder THEN e.decoder[token]
  ELSE Bin(inverseSpecialTokens(e, token))

\* What decode does with its state at a token of an unknown rank.  The
\* variant flushes the byte buffer there, as a string token does.
onUnknownRank_Flush(result, buffered, buffer) ==
  [result |-> IF buffered THEN result \o TextDecode(buffer) ELSE result,
   buffered |-> FALSE, buffer |-> <<>>]

\* if (value === undefined) continue: nothing changes.
onUnknownRank(result, buffered, buffer) ==
  [result |-> result, buffered |-> buffered, buffer |-> buffer]

\* The loop of decode from token i (1-based) on: result is the string so
\* far, buffered says that byteBuffer is not null, buffer holds its bytes.
RECURSIVE DecodeLoop(_, _, _, _, _, _)
DecodeLoop(e, toks, i, result, buffered, buffer) ==
  IF i > Len(toks)
    THEN IF buffered /\ Len(buffer) > 0 THEN result \o TextDecode(buffer) ELSE result
  ELSE IF IsUnknownRank(e, toks[i])
    THEN LET s == onUnknownRank(result, buffered, buffer)
         IN DecodeLoop(e, toks, i + 1, s.result, s.buffered, s.buffer)
  ELSE
    LET value == decoderValue(e, toks[i]) IN
    IF value.isString
      THEN DecodeLoop(e, toks, i + 1,
                      (IF buffered THEN result \o TextDecode(buffer) ELSE result)
                        \o value.val,
                      FALSE, <<>>)
    ELSE DecodeLoop(e, toks, i + 1, result, TRUE, buffer \o value.val)

\* decode(tokens)
decode(e, toks) == DecodeLoop(e, toks, 1, <<>>, FALSE, <<>>)

----------------------------------------------------------------------------
(* The prompt accountant of sdk.ts.  It calls tokenizer.encode(x).length   *)
(* for every string it counts; tk is the tokenizer as those calls leave    *)
(* it, [cache, threw]: threw says that an encode has thrown, which ends    *)
(* count with that error.  A JavaScript number is an integer here, and     *)
(* config.contentMultiplier a fraction [num, den].                         *)

\* tokenizer.encode(str).length: [tk, n].
encodeLength(e, size, tk, str) ==
  IF tk.threw THEN [tk |-> tk, n |-> 0]
  ELSE LET lengthOf(r) ==
             [tk |-> [cache |-> r.cache, threw |-> r.threw], n |-> Len(r.out)]
       IN lengthOf(encode(e, size, tk.cache, str, Only({}), All))

\* undefined: a field that an object does not have.
Undefined == [kind |-> "undefined"]

\* The number NaN, which is none of the integers of the counts.
NaN == -1000000

\* a + b of two numbers.
Plus(a, b) == IF a = NaN \/ b = NaN THEN NaN ELSE a + b

\* Math.floor in the place of Math.round.
MathRound_Floor(n, multiplier) == (n * multiplier.num) \div multiplier.den

\* Math.round(n * multiplier): the nearest integer, a half goes up.
\* n * undefined is NaN, and so is Math.round of it.
MathRound(n, multiplier) ==
  IF multiplier = Undefined THEN NaN
  ELSE (2 * n * multiplier.num + multiplier.den) \div (2 * multiplier.den)

\* The values of a tool call's input and a tool result's output.
StringValue(str) == [kind |-> "string", str |-> str]
EmptyObject == [kind |-> "object"]

\* if (value): undefined and "" are falsy, an object is truthy.
Truthy(value) ==
  value.kind = "object" \/ (value.kind = "string" /\ value.str # <<>>)

\* JSON.stringify's escapes of the characters of a string.
RECURSIVE JsonEscape(_)
JsonEscape(str) ==
  IF str = <<>> THEN <<>>
  ELSE (IF Head(str) \in {34, 92} THEN <<92, Head(str)>> ELSE <<Head(str)>>)
         \o JsonEscape(Tail(str))

\* JSON.stringify(value) of a string or of {}.
JSONstringify(value) ==
  IF value.kind = "string" THEN <<34>> \o JsonEscape(value.str) \o <<34>>
  ELSE <<123, 125>>

\* results.push({ type: "tool-call", total, input: ... })
toolCallResult(toolCallTokens, inputTokens, multiplier) ==
  [type |-> "tool-call",
   total |-> MathRound(toolCallTokens, multiplier),
   input |-> MathRound(inputTokens, multiplier)]

\* What is pushed for a tool-result part, with the output left out of the
\* total.
toolResultResult_IdOnly(toolResultTokens, outputTokens, multiplier) ==
  [type |-> "tool-result",
   total |-> MathRound(toolResultTokens - outputTokens, multiplier),
   output |-> MathRound(outputTokens, multiplier)]

\* results.push({ type: "tool-result", total, output: ... })
toolResultResult(toolResultTokens, outputTokens, multiplier) ==
  [type |-> "tool-result",
   total |-> MathRound(toolResultTokens, multiplier),
   output |-> MathRound(outputTokens, multiplier)]

\* The loop of countMessageContentTokensDetailed over the parts of an array.
RECURSIVE ContentLoop(_, _, _, _, _, _, _)
ContentLoop(e, size, tk, parts, i, config, results) ==
  IF i > Len(parts) THEN [tk |-> tk, results |-> results]
  ELSE
    LET part == parts[i]
        multiplier == config.contentMultiplier
        none == [tk |-> tk, n |-> 0]
    IN
    IF part.type = "text" THEN
      LET push(t) ==
            ContentLoop(e, size, t.tk, parts, i + 1, config,
              Append(results,
                     [type |-> "text", total |-> MathRound(t.n, multiplier)]))
      IN push(encodeLength(e, size, tk, part.text))
    ELSE IF part.type = "tool-call" THEN
      LET push(name, input) ==
            LET toolCallTokens == name.n + input.n
                inputTokens == input.n
            IN ContentLoop(e, size, input.tk, parts, i + 1, config,
                 Append(results,
                        toolCallResult(toolCallTokens, inputTokens, multiplier)))
      IN The({ push(name,
                    IF Truthy(part.input)
                      THEN encodeLength(e, size, name.tk,
                                        JSONstringify(part.input))
                      ELSE [tk |-> name.tk, n |-> 0])
               : name \in {IF part.toolName # <<>>
                             THEN encodeLength(e, size, tk, part.toolName)
                             ELSE none} })
    ELSE IF part.type = "tool-result" THEN
      LET push(id, output) ==
            LET toolResultTokens == id.n + output.n
                outputTokens == output.n
            IN ContentLoop(e, size, output.tk, parts, i + 1, config,
                 Append(results,
                        toolResultResult(toolResultTokens, outputTokens,
                                         multiplier)))
      IN The({ push(id,
                    IF ~Truthy(part.output) THEN [tk |-> id.tk, n |-> 0]
                    ELSE IF part.output.kind = "string"
                      THEN encodeLength(e, size, id.tk, part.output.str)
                    ELSE encodeLength(e, size, id.tk,
                                      JSONstringify(part.output)))
               : id \in {IF part.toolCallId # <<>>
                           THEN encodeLength(e, size, tk, part.toolCallId)
                           ELSE none} })
    ELSE IF part.type = "image" THEN
      ContentLoop(e, size, tk, parts, i + 1, config,
                  Append(results, [type |-> "text", total |-> 85]))
    ELSE IF part.type = "file" THEN
      ContentLoop(e, size, tk, parts, i + 1, config,
                  Append(results, [type |-> "text", total |-> 100]))
    ELSE ContentLoop(e, size, tk, parts, i + 1, config, results)

\* countMessageContentTokensDetailed(tokenizer, content, config): [tk,
\* results].  A content is [kind |-> "string", str] or [kind |-> "array",
\* parts].
countMessageContentTokensDetailed(e, size, tk, content, config) ==
  IF content.kind = "string" THEN
    LET push(t) ==
          [tk |-> t.tk,
           results |-> <<[type |-> "text",
                          total |-> MathRound(t.n, config.contentMultiplier)]>>]
    IN push(encodeLength(e, size, tk, content.str))
  ELSE ContentLoop(e, size, tk, content.parts, 1, config, <<>>)

\* contentResult.reduce((sum, c) => sum + c.total, 0)
RECURSIVE SumTotals(_)
SumTotals(results) ==
  IF results = <<>> THEN 0
  ELSE Plus(Head(results).total, SumTotals(Tail(results)))

\* countMessageTokensDetailed(tokenizer, message, config), with the
\* content multiplier applied to the tokens of the role too.
countMessageTokensDetailed_RoleScaled(e, size, tk, message, config) ==
  LET hasContent == message.content.kind = "array" \/ message.content.str # <<>>
      sum(role, contentResult) ==
        [tk |-> contentResult.tk,
         total |-> Plus(config.perMessage
                          + MathRound(role.n, config.contentMultiplier),
                        SumTotals(contentResult.results)),
         content |-> contentResult.results]
  IN The({ sum(role,
               IF hasContent
                 THEN countMessageContentTokensDetailed(e, size, role.tk,
                                                        message.content, config)
                 ELSE [tk |-> role.tk, results |-> <<>>])
           : role \in {encodeLength(e, size, tk, message.role)} })

\* countMessageTokensDetailed(tokenizer, message, config), with the role
\* left out of the total.
countMessageTokensDetailed_NoRole(e, size, tk, message, config) ==
  LET hasContent == message.content.kind = "array" \/ message.content.str # <<>>
      sum(role, contentResult) ==
        [tk |-> contentResult.tk,
         total |-> Plus(config.perMessage, SumTotals(contentResult.results)),
         content |-> contentResult.results]
  IN The({ sum(role,
               IF hasContent
                 THEN countMessageContentTokensDetailed(e, size, role.tk,
                                                        message.content, config)
                 ELSE [tk |-> role.tk, results |-> <<>>])
           : role \in {encodeLength(e, size, tk, message.role)} })

\* countMessageTokensDetailed(tokenizer, message, config): [tk, total,
\* content].  if (message.content): "" is falsy, an array is truthy.
countMessageTokensDetailed(e, size, tk, message, config) ==
  LET hasContent == message.content.kind = "array" \/ message.content.str # <<>>
      sum(role, contentResult) ==
        [tk |-> contentResult.tk,
         total |-> Plus(config.perMessage + role.n,
                        SumTotals(contentResult.results)),
         content |-> contentResult.results]
  IN The({ sum(role,
               IF hasContent
                 THEN countMessageContentTokensDetailed(e, size, role.tk,
                                                        message.content, config)
                 ELSE [tk |-> role.tk, results |-> <<>>])
           : role \in {encodeLength(e, size, tk, message.role)} })

\* A schema is [exists, def, description]: exists = FALSE stands for
\* undefined, def.type = "none" for a schema without _def, description = <<>>
\* for no description.  The def of an object has a shape, a sequence of
\* [key, value] in Object.entries order; that of an enum has values; that
\* of an array has an element.
RECURSIVE countZodSchemaProperties(_, _, _, _, _)
RECURSIVE PropsLoop(_, _, _, _, _, _, _, _)
RECURSIVE EnumLoop(_, _, _, _, _, _)

\* for (const enumValue of enumValues) tokens += encode(String(enumValue)).length
EnumLoop(e, size, tk, values, i, sum) ==
  IF i > Len(values) THEN [tk |-> tk, n |-> sum]
  ELSE LET add(v) == EnumLoop(e, size, v.tk, values, i + 1, sum + v.n)
       IN add(encodeLength(e, size, tk, values[i]))

\* The overhead of a nested schema, with nothing added for a nested
\* object.
nestedOverhead_ArraysOnly(innerDef, config) ==
  IF innerDef.type = "array" /\ innerDef.element.exists
       /\ innerDef.element.def.type = "object"
    THEN config.perArrayOfObjects
  ELSE 0

\* tokens += config.perNestedObject || 0, for a property that is an object;
\* tokens += config.perArrayOfObjects || 0, for an array of objects.
nestedOverhead(innerDef, config) ==
  IF innerDef.type = "object" THEN config.perNestedObject
  ELSE IF innerDef.type = "array" /\ innerDef.element.exists
            /\ innerDef.element.def.type = "object"
    THEN config.perArrayOfObjects
  ELSE 0

\* The overhead of a property, with every property taken as a first one.
propertyOverhead_AlwaysFirst(propCount, config) == config.perFirstProp

\* isFirstProp ? config.perFirstProp : config.perAdditionalProp, where
\* isFirstProp is propCount === 0.
propertyOverhead(propCount, config) ==
  IF propCount = 0 THEN config.perFirstProp ELSE config.perAdditionalProp

\* The loop over Object.entries(shape); sum is the function's tokens.
PropsLoop(e, size, tk, shape, i, config, sum, propCount) ==
  IF i > Len(shape) THEN [tk |-> tk, tokens |-> sum, propCount |-> propCount]
  ELSE
    LET key == shape[i].key
        propSchema == shape[i].value
        innerDef == propSchema.def
        overhead == propertyOverhead(propCount, config)
        descTokens(d) == IF propSchema.description # <<>>
                           THEN config.perPropDesc + d.n ELSE 0
        enumTokens(en) == IF innerDef.type = "enum" THEN config.perEnum + en.n ELSE 0
        isArray == innerDef.type = "array" /\ innerDef.element.exists
        add(k, d, en, nested) ==
          PropsLoop(e, size, nested.tk, shape, i + 1, config,
                    sum + k.n + overhead + descTokens(d) + enumTokens(en)
                      + nestedOverhead(innerDef, config) + nested.tokens,
                    propCount + 1)
        nest(k, d, en) ==
          add(k, d, en,
              IF innerDef.type = "object"
                THEN countZodSchemaProperties(e, size, en.tk, propSchema, config)
              ELSE IF isArray
                THEN countZodSchemaProperties(e, size, en.tk, innerDef.element,
                                              config)
              ELSE [tk |-> en.tk, tokens |-> 0, propCount |-> 0])
    IN The({ The({ nest(k, d,
                        IF innerDef.type = "enum"
                          THEN EnumLoop(e, size, d.tk, innerDef.values, 1, 0)
                          ELSE [tk |-> d.tk, n |-> 0])
                   : d \in {IF propSchema.description # <<>>
                              THEN encodeLength(e, size, k.tk,
                                                propSchema.description)
                              ELSE [tk |-> k.tk, n |-> 0]} })
             : k \in {encodeLength(e, size, tk, key)} })

\* countZodSchemaProperties(schema, tokenizer, config): [tk, tokens,
\* propCount].
countZodSchemaProperties(e, size, tk, schema, config) ==
  IF ~schema.exists \/ schema.def.type = "none"
    THEN [tk |-> tk, tokens |-> 0, propCount |-> 0]
  ELSE IF schema.def.type = "object"
    THEN PropsLoop(e, size, tk, schema.def.shape, 1, config, 0, 0)
  ELSE [tk |-> tk, tokens |-> 0, propCount |-> 0]

\* The loop of countToolsTokensDetailed over Object.entries(tools); i is
\* 1-based.
RECURSIVE ToolsLoop(_, _, _, _, _, _, _, _)
ToolsLoop(e, size, tk, toolEntries, i, config, total, definitions) ==
  IF i > Len(toolEntries)
    THEN [tk |-> tk, total |-> total, definitions |-> definitions]
  ELSE
    LET toolName == toolEntries[i].name
        tool == toolEntries[i].tool
        descriptionTokens(ds) == IF tool.description # <<>>
                                   THEN config.perDesc + ds.n ELSE 0
        definition(nm, ds, sc) ==
          [name |-> nm.n, description |-> descriptionTokens(ds),
           inputSchema |-> sc.tokens]
        add(nm, ds, sc) ==
          ToolsLoop(e, size, sc.tk, toolEntries, i + 1, config,
                    total + nm.n + descriptionTokens(ds) + sc.tokens
                      + (IF i > 1 THEN config.perTool ELSE 0),
                    (toolName :> definition(nm, ds, sc)) @@ definitions)
    IN The({ The({ add(nm, ds,
                       IF tool.inputSchema.exists
                         THEN countZodSchemaProperties(e, size, ds.tk,
                                                       tool.inputSchema, config)
                         ELSE [tk |-> ds.tk, tokens |-> 0, propCount |-> 0])
                   : ds \in {IF tool.description # <<>>
                               THEN encodeLength(e, size, nm.tk, tool.description)
                               ELSE [tk |-> nm.tk, n |-> 0]} })
             : nm \in {encodeLength(e, size, tk, toolName)} })

\* countToolsTokensDetailed, with the tools after the first one left out.
countToolsTokensDetailed_FirstToolOnly(e, size, tk, tools, config) ==
  IF tools.defined /\ Len(tools.entries) > 0
    THEN ToolsLoop(e, size, tk, SubSeq(tools.entries, 1, 1), 1, config,
                   config.toolsExist, <<>>)
  ELSE [tk |-> tk, total |-> 0, definitions |-> <<>>]

\* countToolsTokensDetailed, with toolsExist added for every tool set that
\* is given, the empty one included.
countToolsTokensDetailed_AlwaysToolsExist(e, size, tk, tools, config) ==
  IF tools.defined
    THEN ToolsLoop(e, size, tk, tools.entries, 1, config, config.toolsExist, <<>>)
  ELSE [tk |-> tk, total |-> 0, definitions |-> <<>>]

\* countToolsTokensDetailed(tokenizer, tools, config): [tk, total,
\* definitions].  tools is [defined, entries]: defined = FALSE stands for
\* undefined, entries is Object.entries(tools).
countToolsTokensDetailed(e, size, tk, tools, config) ==
  IF tools.defined /\ Len(tools.entries) > 0
    THEN ToolsLoop(e, size, tk, tools.entries, 1, config, config.toolsExist, <<>>)
  ELSE [tk |-> tk, total |-> 0, definitions |-> <<>>]

\* Object.values(definitions).reduce(
\*   (sum, tool) => sum + tool.name + tool.description + tool.inputSchema, 0)
RECURSIVE SumDefinitions(_)
SumDefinitions(definitions) ==
  IF DOMAIN definitions = {} THEN 0
  ELSE LET toolName == CHOOSE k \in DOMAIN definitions : TRUE
           tool == definitions[toolName]
       IN tool.name + tool.description + tool.inputSchema
            + SumDefinitions([k \in DOMAIN definitions \ {toolName} |->
                                definitions[k]])

\* The loop of count over options.messages.
RECURSIVE MessagesLoop(_, _, _, _, _, _, _, _)
MessagesLoop(e, size, tk, msgs, i, config, total, out) ==
  IF i > Len(msgs) THEN [tk |-> tk, total |-> total, messages |-> out]
  ELSE LET push(messageResult) ==
             MessagesLoop(e, size, messageResult.tk, msgs, i + 1, config,
                          Plus(total, messageResult.total),
                          Append(out, [total |-> messageResult.total,
                                       content |-> messageResult.content]))
       IN push(countMessageTokensDetailed(e, size, tk, msgs[i], config))

\* count(options) with the total started at 0.
sdkCount_NoBaseOverhead(e, size, cache, opts) ==
  LET config == opts.model.tokens
      return(m, toolsResult) ==
        [threw |-> toolsResult.tk.threw,
         cache |-> toolsResult.tk.cache,
         result |-> [total |-> Plus(m.total, toolsResult.total),
                     messages |-> m.messages,
                     tools |-> [total |-> toolsResult.total,
                                definitions |-> toolsResult.definitions]]]
  IN The({ return(m, countToolsTokensDetailed(e, size, m.tk, opts.tools, config))
           : m \in {MessagesLoop(e, size, [cache |-> cache, threw |-> FALSE],
                                 opts.messages, 1, config, 0, <<>>)} })

\* count(options) of sdk.ts: [threw, cache, result].
sdkCount(e, size, cache, opts) ==
  LET config == opts.model.tokens
      return(m, toolsResult) ==
        [threw |-> toolsResult.tk.threw,
         cache |-> toolsResult.tk.cache,
         result |-> [total |-> Plus(m.total, toolsResult.total),
                     messages |-> m.messages,
                     tools |-> [total |-> toolsResult.total,
                                definitions |-> toolsResult.definitions]]]
  IN The({ return(m, countToolsTokensDetailed(e, size, m.tk, opts.tools, config))
           : m \in {MessagesLoop(e, size, [cache |-> cache, threw |-> FALSE],
                                 opts.messages, 1, config, config.baseOverhead, <<>>)} })

----------------------------------------------------------------------------
(* What the accountant is called with: model configurations, messages and  *)
(* tools.                                                                  *)

\* model.tokens of three models: the coefficients are integers (differences
\* of measured token counts, which can be negative), the content multiplier
\* is 1, 1.5 or 2.
ModelConfigs ==
  { [baseOverhead |-> 3, perMessage |-> 4, toolsExist |-> 9, perTool |-> 5,
     perDesc |-> 2, perFirstProp |-> 3, perAdditionalProp |-> 1,
     perPropDesc |-> 2, perEnum |-> 3, perNestedObject |-> 4,
     perArrayOfObjects |-> 6, contentMultiplier |-> [num |-> 1, den |-> 1]],
    [baseOverhead |-> -2, perMessage |-> 7, toolsExist |-> 20, perTool |-> -3,
     perDesc |-> 1, perFirstProp |-> 5, perAdditionalProp |-> 2,
     perPropDesc |-> 0, perEnum |-> -1, perNestedObject |-> 0,
     perArrayOfObjects |-> 3, contentMultiplier |-> [num |-> 3, den |-> 2]],
    [baseOverhead |-> 0, perMessage |-> -1, toolsExist |-> 0, perTool |-> 0,
     perDesc |-> 0, perFirstProp |-> 0, perAdditionalProp |-> 0,
     perPropDesc |-> 1, perEnum |-> 0, perNestedObject |-> -2,
     perArrayOfObjects |-> 0, contentMultiplier |-> [num |-> 2, den |-> 1]] }

\* The roles "user" and "tool"; the strings "", "a", U+00E9 and "<a" (a
\* special token of EncodingA).
Roles == {<<117, 115, 101, 114>>, <<116, 111, 111, 108>>}
ContentStrings == {<<>>, <<97>>, <<233>>, <<60, 97>>}

StringContent(str) == [kind |-> "string", str |-> str]
ArrayContent(parts) == [kind |-> "array", parts |-> parts]

TextPart(str) == [type |-> "text", text |-> str]
ToolCallPart(toolName, input) ==
  [type |-> "tool-call", toolName |-> toolName, input |-> input]
ToolResultPart(toolCallId, output) ==
  [type |-> "tool-result", toolCallId |-> toolCallId, output |-> output]

Parts ==
  {TextPart(str) : str \in {<<>>, <<97>>, <<60, 97>>}}
  \cup {ToolCallPart(<<97>>, v) :
          v \in {Undefined, EmptyObject, StringValue(<<97>>), StringValue(<<>>)}}
  \cup {ToolCallPart(<<>>, EmptyObject)}
  \cup {ToolResultPart(<<97>>, v) :
          v \in {Undefined, EmptyObject, StringValue(<<97>>)}}
  \cup {ToolResultPart(<<>>, StringValue(<<97>>))}
  \cup {[type |-> "image"], [type |-> "file"], [type |-> "reasoning"]}

\* Messages whose content is a string, and messages of the role "tool"
\* whose content is an array of parts.
PlainMessages ==
  {[role |-> r, content |-> StringContent(str)] :
     r \in Roles, str \in ContentStrings}
RichMessages ==
  {[role |-> <<116, 111, 111, 108>>, content |-> ArrayContent(parts)] :
     parts \in SeqsUpTo(Parts, MaxParts)}

NoSchema == [exists |-> FALSE]
Schema(def, description) ==
  [exists |-> TRUE, def |-> def, description |-> description]
StringSchema == Schema([type |-> "string"], <<>>)
ObjectSchema(shape) == Schema([type |-> "object", shape |-> shape], <<>>)
ArraySchema(element) == Schema([type |-> "array", element |-> element], <<>>)

\* The shapes of at most n properties with values from S and distinct keys.
PropKeys == {<<97>>, <<233>>}
Shapes(S, n) ==
  {shape \in SeqsUpTo([key : PropKeys, value : S], n) :
     \A i, j \in 1..Len(shape) : shape[i].key = shape[j].key => i = j}

\* The schemas of properties: scalars, with and without a description, an
\* enum, a schema without _def, nested objects, with and without a
\* description, and arrays of scalars, of objects, of enums and of arrays.
PropSchemas ==
  { StringSchema,
    Schema([type |-> "string"], <<97>>),
    Schema([type |-> "enum", values |-> << <<97>>, <<233>> >>], <<>>),
    Schema([type |-> "none"], <<>>) }
  \cup {ObjectSchema(shape) : shape \in Shapes({StringSchema}, MaxProps)}
  \cup {Schema([type |-> "object", shape |-> shape], <<97>>) :
          shape \in Shapes({StringSchema}, 1)}
  \cup {ArraySchema(element) :
          element \in {StringSchema, NoSchema,
                       ObjectSchema(<< [key |-> <<97>>, value |-> StringSchema] >>),
                       Schema([type |-> "enum", values |-> << <<97>>, <<233>> >>],
                              <<>>),
                       ArraySchema(ObjectSchema(
                         << [key |-> <<97>>, value |-> StringSchema] >>))}}

InputSchemas ==
  {NoSchema, Schema([type |-> "none"], <<>>), StringSchema}
  \cup {ObjectSchema(shape) : shape \in Shapes(PropSchemas, MaxProps)}

NoTools == [defined |-> FALSE, entries |-> <<>>]
Tools(entries) == [defined |-> TRUE, entries |-> entries]

\* One tool with any input schema, and at most MaxTools tools of distinct
\* names with small schemas.
ToolNames == {<<97>>, <<233>>, <<97, 97>>}
SmallTools ==
  [description : {<<>>, <<97>>},
   inputSchema : {NoSchema,
                  ObjectSchema(<< [key |-> <<97>>, value |-> StringSchema] >>)}]
ToolSets ==
  {NoTools}
  \cup {Tools(<< [name |-> <<97>>,
                  tool |-> [description |-> d, inputSchema |-> schema]] >>) :
          d \in {<<>>, <<97>>}, schema \in InputSchemas}
  \cup {Tools(entries) :
          entries \in {es \in SeqsUpTo([name : ToolNames, tool : SmallTools],
                                       MaxTools) :
                         \A i, j \in 1..Len(es) : es[i].name = es[j].name => i = j}}

NoOptions == [messages |-> <<>>, tools |-> NoTools,
              model |-> [tokens |-> CHOOSE c \in ModelConfigs : c.baseOverhead = 0]]
NoCount == [total |-> 0, messages |-> <<>>,
            tools |-> [total |-> 0, definitions |-> <<>>]]

----------------------------------------------------------------------------
(* The engine as a state machine: a Tokenizer constructed over one of the  *)
(* encodings with a cache size, and then called any number of times by a   *)
(* caller that makes one call at a time (the engine is synchronous): op is *)
(* "idle" between calls, and otherwise names the call whose arguments and  *)
(* result the state holds.                                                 *)

\* With a size of 0 the cache holds one entry at a time, as it does with a
\* size of 1: addToMergeCache deletes the oldest entry, if there is one, and
\* then sets the new one.
CacheSizes == {0}

\* The arguments encode is called with: "all", or a set of the encoding's
\* special token literals.
SpecialArgs(e) == {All} \cup {Only(S) : S \in SUBSET SpecialKeySet(e)}

\* The ranks of the sequences given to decode: "a", the two bytes of
\* U+00E9, a special token's rank (in EncodingA) and ranks of no token.
DecodeRanks == {2, 3, 6, 100, 999}

NoResult == [threw |-> FALSE, toks |-> <<>>, str |-> <<>>, n |-> 0]

(***************************************************************************)
(* The calibration script, scripts/find-best-tokenizer.ts: it fetches the   *)
(* gateway's models, loads src/models.json, and for each model either       *)
(* refreshes the config it has or measures a new one, saving the whole      *)
(* document after each model it stored.  Of the eleven coefficients, all    *)
(* derived as differences of measured prompt sizes, the model keeps         *)
(* perTool; of the pricing keys it keeps input.                             *)
(***************************************************************************)

\* parseFloat(str), of a string of decimal digits or one that starts with none.
parseFloat(str) ==
  LET isDigit(c) == c \in 48..57
      RECURSIVE value(_, _)
      value(j, acc) ==
        IF j > Len(str) \/ ~isDigit(str[j]) THEN acc
        ELSE value(j + 1, 10 * acc + (str[j] - 48))
  IN IF Len(str) = 0 \/ ~isDigit(str[1]) THEN NaN ELSE value(1, 0)

\* validateConfig(config): no NaN among the coefficients, the limits, the prices.
validateConfig(config) ==
  /\ \A k \in DOMAIN config.tokens : config.tokens[k] # NaN
  /\ config.contextWindow # NaN
  /\ config.maxTokens # NaN
  /\ \A k \in DOMAIN config.pricing : config.pricing[k] # NaN

\* measureModel(modelName, encoding, apiModel), given the usage the gateway
\* reported for the prompts with one tool and with two (its inputTokens may be
\* missing) and the token count of the second tool's name.
measureModel(encoding, apiModel, runs) ==
  LET run(usage) == IF "inputTokens" \in DOMAIN usage THEN usage.inputTokens
                    ELSE NaN
      Minus(a, b) == IF a = NaN \/ b = NaN THEN NaN ELSE a - b
      perTool == Minus(Minus(run(runs.twoTools), run(runs.emptyTool)),
                       runs.nameTokens)
  IN [encoding |-> encoding, tokens |-> [perTool |-> perTool],
      name |-> apiModel.name, contextWindow |-> apiModel.context_window,
      maxTokens |-> apiModel.max_tokens,
      pricing |-> [k \in DOMAIN apiModel.pricing |->
                     parseFloat(apiModel.pricing[k])]]

\* JSON.stringify of a document, as saveConfigs writes it: a NaN is printed
\* as null.
stringify(configs) ==
  LET number(v) == IF v = NaN THEN [json |-> "null"]
                   ELSE [json |-> "number", value |-> v]
      object(c) == IF c = Undefined THEN Undefined
                   ELSE [encoding |-> c.encoding,
                         tokens |-> [k \in DOMAIN c.tokens |-> number(c.tokens[k])],
                         name |-> c.name,
                         contextWindow |-> number(c.contextWindow),
                         maxTokens |-> number(c.maxTokens),
                         pricing |-> [k \in DOMAIN c.pricing |->
                                        number(c.pricing[k])]]
  IN [id \in DOMAIN configs |-> object(configs[id])]

(***************************************************************************)
(* The demo page, site/main.js, and its worker, site/tokenizer.worker.js.   *)
(* The page's state is a record p: the input's value, the script's          *)
(* variables, the armed timers, and the two message queues between the page *)
(* and the worker.  A null text is the empty string: both are falsy, and no *)
(* empty text is ever asked to be tokenized.                                *)
(***************************************************************************)

\* The longest queue of messages the model follows.
MaxQueue == 2

\* performTokenization(text, force)
performTokenization(p, txt, force) ==
  IF ~force /\ txt = p.lastTokenizedText THEN p
  ELSE IF p.tokenizationInProgress THEN [p EXCEPT !.pendingTokenization = txt]
  ELSE [p EXCEPT !.tokenizationInProgress = TRUE,
                 !.lastTokenizedText = txt,
                 !.toWorker = Append(@, [type |-> "tokenize", text |-> txt,
                                         encodingType |-> p.currentEncoding])]

\* updateTokenization(force)
updateTokenization(p, force) ==
  IF p.currentEncoding = "" \/ p.inputValue = ""
    THEN [p EXCEPT !.tokenizationInProgress = FALSE,
                   !.pendingTokenization = "",
                   !.lastTokenizedText = ""]
  ELSE IF p.autoTokenizeEnabled \/ force
    THEN performTokenization(p, p.inputValue, force)
  ELSE p

\* new Tokenizer(encoding, undefined, mergeCacheSize), for a size of sizes; the
\* calibration script not yet run; the demo page as its script leaves it, the
\* example text in the input and the default model's encoding asked for.
InitWith(sizes) ==
  /\ enc \in 1..Len(Encodings)
  /\ mergeCacheSize \in sizes
  /\ mergeCache = <<>>
  /\ cacheBefore = <<>>
  /\ op = "idle"
  /\ text = <<>>
  /\ allowedSpecial = Only({})
  /\ disallowedSpecial = All
  /\ piece = <<>>
  /\ tokens = <<>>
  /\ res = NoResult
  /\ options = NoOptions
  /\ countResult = NoCount
  /\ driver = [pc |-> "start", apiModels |-> <<>>, i |-> 1, loaded |-> <<>>,
               configs |-> <<>>, saved |-> <<>>, measured |-> <<>>]
  /\ page = [inputValue |-> "a", currentEncoding |-> "",
             tokenizationInProgress |-> FALSE, pendingTokenization |-> "",
             lastTokenizedText |-> "", autoTokenizeEnabled |-> TRUE,
             lastInputWasPaste |-> FALSE, debounce |-> FALSE,
             tokenizeBtn |-> FALSE, workerEncoding |-> "",
             toWorker |-> << [type |-> "load", encodingType |-> "o200k_base"] >>,
             toPage |-> <<>>]

\* tokenizer.encode(t, a, d)
Encode ==
  /\ op = "idle"
  /\ \E t \in Texts, a \in SpecialArgs(E), d \in SpecialArgs(E) :
    \E r \in {encode(E, mergeCacheSize, mergeCache, t, a, d)} :
    /\ op' = "encode"
    /\ text' = t
    /\ allowedSpecial' = a
    /\ disallowedSpecial' = d
    /\ mergeCache' = r.cache
    /\ cacheBefore' = mergeCache
    /\ res' = [threw |-> r.threw, toks |-> r.out, str |-> <<>>, n |-> 0]
    /\ UNCHANGED <<enc, mergeCacheSize, piece, tokens>>
    /\ UNCHANGED <<acctVars, driver, page>>

\* tokenizer.encodeOrdinary(t)
EncodeOrdinary ==
  /\ op = "idle"
  /\ \E t \in Texts :
    \E r \in {encodeOrdinary(E, mergeCacheSize, mergeCache, t)} :
    /\ op' = "encodeOrdinary"
    /\ text' = t
    /\ mergeCache' = r.cache
    /\ cacheBefore' = mergeCache
    /\ res' = [threw |-> FALSE, toks |-> r.out, str |-> <<>>, n |-> 0]
    /\ UNCHANGED <<enc, mergeCacheSize, allowedSpecial, disallowedSpecial,
                   piece, tokens>>
    /\ UNCHANGED <<acctVars, driver, page>>

\* tokenizer.count(t)
Count ==
  /\ op = "idle"
  /\ \E t \in Texts :
    \E r \in {count(E, mergeCacheSize, mergeCache, t)} :
    /\ op' = "count"
    /\ text' = t
    /\ mergeCache' = r.cache
    /\ cacheBefore' = mergeCache
    /\ res' = [threw |-> r.threw, toks |-> <<>>, str |-> <<>>, n |-> Len(r.out)]
    /\ allowedSpecial' = Only({})
    /\ disallowedSpecial' = All
    /\ UNCHANGED <<enc, mergeCacheSize, piece, tokens>>
    /\ UNCHANGED <<acctVars, driver, page>>

\* tokenizer.decode(tokenizer.encodeOrdinary(t))
RoundTrip ==
  /\ op = "idle"
  /\ \E t \in Texts :
    \E r \in {encodeOrdinary(E, mergeCacheSize, mergeCache, t)} :
    /\ op' = "roundTrip"
    /\ text' = t
    /\ mergeCache' = r.cache
    /\ cacheBefore' = mergeCache
    /\ res' = [threw |-> FALSE, toks |-> r.out, str |-> decode(E, r.out), n |-> 0]
    /\ UNCHANGED <<enc, mergeCacheSize, allowedSpecial, disallowedSpecial,
                   piece, tokens>>
    /\ UNCHANGED <<acctVars, driver, page>>

\* The caller is done with the result of its call.
Return ==
  /\ op # "idle"
  /\ op' = "idle"
  /\ text' = <<>>
  /\ allowedSpecial' = Only({})
  /\ disallowedSpecial' = All
  /\ piece' = <<>>
  /\ tokens' = <<>>
  /\ res' = NoResult
  /\ cacheBefore' = mergeCache
  /\ options' = NoOptions
  /\ countResult' = NoCount
  /\ UNCHANGED <<enc, mergeCacheSize, mergeCache, driver, page>>

Init == InitWith(CacheSizes)

Next == Encode \/ EncodeOrdinary \/ Count \/ RoundTrip \/ Return

Spec == Init /\ [][Next]_vars

\* The engine with a cache of size 2, with which an eviction leaves an entry
\* behind, called with the default arguments: encodeOrdinary looks the cache
\* up itself, count does through bytePairEncode.
NextCache == EncodeOrdinary \/ Count \/ Return

SpecCache == InitWith({2}) /\ [][NextCache]_vars

\* The engine called through encode only.
NextEncode == Encode \/ Return

SpecEncode == Init /\ [][NextEncode]_vars

\* The pure functions, each applied to an input drawn from its domain.

\* bytePairMerge(p, stringRanks, binaryFirstByteIndex)
Merge ==
  /\ op = "idle"
  /\ \E p \in Pieces :
    /\ op' = "bytePairMerge"
    /\ piece' = p
    /\ res' = [threw |-> FALSE, toks |-> bytePairMerge(E, p), str |-> <<>>, n |-> 0]
    /\ cacheBefore' = mergeCache
    /\ UNCHANGED <<enc, mergeCacheSize, mergeCache, text, allowedSpecial,
                   disallowedSpecial, tokens>>
    /\ UNCHANGED <<acctVars, driver, page>>

\* tokenizer.decode(toks)
Decode ==
  /\ op = "idle"
  /\ \E toks \in SeqsUpTo(DecodeRanks, MaxTokens) :
    /\ op' = "decode"
    /\ tokens' = toks
    /\ res' = [threw |-> FALSE, toks |-> <<>>, str |-> decode(E, toks), n |-> 0]
    /\ cacheBefore' = mergeCache
    /\ UNCHANGED <<enc, mergeCacheSize, mergeCache, text, allowedSpecial,
                   disallowedSpecial, piece>>
    /\ UNCHANGED <<acctVars, driver, page>>

NextPure == Merge \/ Decode \/ Return

SpecPure == Init /\ [][NextPure]_vars

\* The accountant, called on an engine between the engine's own calls.

\* The call count(opts) and what it leaves.
CallCount(opts) ==
  \E r \in {sdkCount(E, mergeCacheSize, mergeCache, opts)} :
    /\ op' = "sdkCount"
    /\ options' = opts
    /\ countResult' = IF r.threw THEN NoCount ELSE r.result
    /\ res' = [NoResult EXCEPT !.threw = r.threw]
    /\ mergeCache' = r.cache
    /\ cacheBefore' = mergeCache
    /\ UNCHANGED <<enc, mergeCacheSize, text, allowedSpecial, disallowedSpecial,
                   piece, tokens, driver, page>>

\* count of some messages with string contents, with or without a tool.
SdkCountMessages ==
  /\ op = "idle"
  /\ \E config \in ModelConfigs, msgs \in SeqsUpTo(PlainMessages, MaxMessages),
        tools \in {NoTools,
                   Tools(<< [name |-> <<97>>,
                             tool |-> [description |-> <<97>>,
                                       inputSchema |-> NoSchema]] >>)} :
       CallCount([messages |-> msgs, tools |-> tools,
                  model |-> [tokens |-> config]])

\* count of one message whose content is an array of parts.
SdkCountContent ==
  /\ op = "idle"
  /\ \E config \in ModelConfigs, message \in RichMessages :
       CallCount([messages |-> <<message>>, tools |-> NoTools,
                  model |-> [tokens |-> config]])

\* count of no message and some tools.
SdkCountTools ==
  /\ op = "idle"
  /\ \E config \in ModelConfigs, tools \in ToolSets :
       CallCount([messages |-> <<>>, tools |-> tools,
                  model |-> [tokens |-> config]])

\* count with a model whose tokens have no contentMultiplier.
SdkCountDefault ==
  /\ op = "idle"
  /\ \E config \in ModelConfigs,
        msgs \in SeqsUpTo(PlainMessages, MaxMessages)
                   \cup {<<message>> : message \in RichMessages} :
       CallCount([messages |-> msgs, tools |-> NoTools,
                  model |-> [tokens |-> [config EXCEPT
                                           !.contentMultiplier = Undefined]]])

NextDefault == SdkCountDefault \/ Return

SpecDefault == Init /\ [][NextDefault]_vars

\* The calibration script's steps.

\* fetchModels() and loadExistingConfigs().
FetchAndLoad ==
  /\ driver.pc = "start"
  /\ \E apiModels \in
          \* two models, each with a context window and a price string, which
          \* may be empty
          LET ApiModel(id) ==
                {[id |-> id, name |-> "new", context_window |-> cw,
                  max_tokens |-> 4, pricing |-> [input |-> p]] :
                 cw \in {8, 16}, p \in {<<49>>, <<>>}}
          IN {<<a, b>> : a \in ApiModel("m1"), b \in ApiModel("m2")},
        loaded \in
          \* for each model no config (configs[id] is undefined) or one an
          \* earlier run stored, with one encoding or another
          LET Config(e) ==
                [encoding |-> e, tokens |-> [perTool |-> 2], name |-> "old",
                 contextWindow |-> 8, maxTokens |-> 4, pricing |-> [input |-> 1]]
          IN [{"m1", "m2"} -> {Undefined, Config("o200k_base"),
                               Config("cl100k_base")}] :
       driver' = [driver EXCEPT !.pc = "loop", !.apiModels = apiModels,
                                !.loaded = loaded, !.configs = loaded,
                                !.saved = loaded,
                                !.measured = [id \in DOMAIN loaded |-> Undefined]]
  /\ UNCHANGED <<tokVars, acctVars, page>>

\* One turn of the loop over apiModels, with what findBestTokenizer and the
\* measuring calls come back with (a result, or a rejection that is thrown).
ProcessModel ==
  /\ driver.pc = "loop"
  /\ driver.i <= Len(driver.apiModels)
  /\ \E best \in {[threw |-> TRUE], [threw |-> FALSE, encoding |-> "cl100k_base"]},
        runs \in {[threw |-> TRUE]}
                 \cup {[threw |-> FALSE, nameTokens |-> 1,
                        emptyTool |-> [inputTokens |-> 3], twoTools |-> u] :
                       u \in {[outputTokens |-> 1], [inputTokens |-> 3],
                              [inputTokens |-> 6]}} :
       LET \* the table of manual overrides, which has no entry
           ENCODING_OVERRIDES == [id \in {} |-> ""]
           apiModel == driver.apiModels[driver.i]
           modelId == apiModel.id
           existingConfig == driver.configs[modelId]
           exists == existingConfig # Undefined
           encoding == IF modelId \in DOMAIN ENCODING_OVERRIDES
                         THEN ENCODING_OVERRIDES[modelId]
                       ELSE IF exists THEN existingConfig.encoding
                       ELSE ""
           needsRegeneration == exists /\ existingConfig.encoding # encoding
           updatedConfig ==
             [existingConfig EXCEPT
                !.name = apiModel.name,
                !.contextWindow = apiModel.context_window,
                !.maxTokens = apiModel.max_tokens,
                !.pricing = [k \in DOMAIN apiModel.pricing |->
                               parseFloat(apiModel.pricing[k])]]
           found == IF encoding = "" THEN best.encoding ELSE encoding
           newConfig == measureModel(found, apiModel, runs)
           store(config) == [driver.configs EXCEPT ![modelId] = config]
           next == [driver EXCEPT !.i = driver.i + 1]
       IN IF exists /\ ~needsRegeneration
            THEN driver' = [next EXCEPT !.configs = store(updatedConfig),
                                        !.saved = store(updatedConfig)]
          ELSE IF (encoding = "" /\ best.threw) \/ runs.threw
            THEN driver' = [next EXCEPT !.measured[modelId] = [threw |-> TRUE]]
          ELSE IF ~validateConfig(newConfig)
            THEN driver' = [next EXCEPT !.measured[modelId] = newConfig]
          ELSE driver' = [next EXCEPT !.configs = store(newConfig),
                                      !.saved = store(newConfig),
                                      !.measured[modelId] = newConfig]
  /\ UNCHANGED <<tokVars, acctVars, page>>

NextDriver == FetchAndLoad \/ ProcessModel

SpecDriver == Init /\ [][NextDriver]_vars

\* The demo page's handlers and the worker's.  A step that would make a queue
\* longer than MaxQueue is left out.
Posts(p) == page' = p /\ Len(p.toWorker) <= MaxQueue /\ Len(p.toPage) <= MaxQueue

\* The input's paste and input listeners, when the user types or pastes and
\* leaves v in the input: a text of one character, none, or more than 500000.
InputEvent ==
  /\ \E v \in {"", "a", "big"}, paste \in BOOLEAN :
       LET length == IF v = "" THEN 0 ELSE IF v = "big" THEN 500001 ELSE 1
           lastInputWasPaste == page.lastInputWasPaste \/ paste
           large == length > 500000
       IN /\ paste => ~page.lastInputWasPaste
          /\ v # page.inputValue
          /\ Posts([page EXCEPT
                      !.inputValue = v,
                      !.lastInputWasPaste = lastInputWasPaste,
                      !.tokenizeBtn = large,
                      !.autoTokenizeEnabled = ~large,
                      !.debounce = IF lastInputWasPaste THEN @ ELSE ~large])
  /\ UNCHANGED <<tokVars, acctVars, driver>>

\* A timer fires: the debounced updateTokenization, or the paste listener's.
TimerFires ==
  /\ \/ /\ page.debounce
        /\ Posts(updateTokenization([page EXCEPT !.debounce = FALSE], FALSE))
     \/ /\ page.lastInputWasPaste
        /\ Posts([updateTokenization(page, FALSE) EXCEPT
                    !.lastInputWasPaste = FALSE])
  /\ UNCHANGED <<tokVars, acctVars, driver>>

\* clearBtn's click listener
ClickClear ==
  /\ Posts([page EXCEPT !.inputValue = "",
                        !.pendingTokenization = "",
                        !.toWorker = Append(@, [type |-> "clear"])])
  /\ UNCHANGED <<tokVars, acctVars, driver>>

\* tokenizeBtn's click listener, the button being shown
ClickTokenize ==
  /\ page.tokenizeBtn
  /\ Posts(updateTokenization([page EXCEPT !.pendingTokenization = ""], TRUE))
  /\ UNCHANGED <<tokVars, acctVars, driver>>

\* handleModelChange(), the select left on no model or on one of three models,
\* two of which share an encoding.
handleModelChange ==
  /\ \E modelKey \in {"", "m1", "m2", "m3"} :
       LET models == [m1 |-> [encoding |-> "o200k_base"],
                      m2 |-> [encoding |-> "o200k_base"],
                      m3 |-> [encoding |-> "cl100k_base"]]
           encodingType == models[modelKey].encoding
       IN IF modelKey = ""
            THEN Posts([page EXCEPT !.currentEncoding = ""])
          ELSE IF page.currentEncoding # encodingType
            THEN Posts([page EXCEPT
                          !.toWorker = Append(@, [type |-> "load",
                                                  encodingType |-> encodingType])])
          ELSE IF page.inputValue # ""
            THEN Posts(updateTokenization(page, TRUE))
          ELSE Posts(page)
  /\ UNCHANGED <<tokVars, acctVars, driver>>

\* The worker's self.onmessage on the oldest message posted to it; loading and
\* encoding may throw, and what is thrown is posted as an error.  A reply
\* carries the type of the message it answers.
WorkerOnMessage ==
  /\ page.toWorker # <<>>
  /\ \E threw \in BOOLEAN :
       LET data == Head(page.toWorker)
           rest == [page EXCEPT !.toWorker = Tail(@)]
           reply(r) == [rest EXCEPT !.toPage = Append(@, r)]
           error == [type |-> "error", of |-> data.type]
       IN IF data.type = "load"
            THEN IF threw THEN Posts(reply(error))
                 ELSE Posts([reply([type |-> "loaded", of |-> "load",
                                    encodingType |-> data.encodingType])
                               EXCEPT !.workerEncoding = data.encodingType])
          ELSE IF data.type = "tokenize"
            THEN IF page.workerEncoding = "" \/ threw THEN Posts(reply(error))
                 ELSE Posts(reply([type |-> "tokens", of |-> "tokenize"]))
          ELSE ~threw /\ Posts(rest)
  /\ UNCHANGED <<tokVars, acctVars, driver>>

\* handleWorkerMessage(e) on the oldest message the worker posted
handleWorkerMessage ==
  /\ page.toPage # <<>>
  /\ LET data == Head(page.toPage)
         rest == [page EXCEPT !.toPage = Tail(@)]
     IN IF data.type = "loaded"
          THEN LET loaded == [rest EXCEPT !.currentEncoding = data.encodingType]
               IN IF loaded.inputValue # ""
                    THEN Posts(updateTokenization(loaded, TRUE))
                  ELSE Posts(loaded)
        ELSE IF data.type = "tokens"
          THEN LET done == [rest EXCEPT !.tokenizationInProgress = FALSE]
               IN IF done.pendingTokenization # ""
                    THEN Posts(performTokenization(
                                 [done EXCEPT !.pendingTokenization = ""],
                                 done.pendingTokenization, FALSE))
                  ELSE Posts(done)
        ELSE Posts([rest EXCEPT !.tokenizationInProgress = FALSE])
  /\ UNCHANGED <<tokVars, acctVars, driver>>

NextSite ==
  \/ InputEvent \/ TimerFires \/ ClickClear \/ ClickTokenize
  \/ handleModelChange \/ WorkerOnMessage \/ handleWorkerMessage

SpecSite == Init /\ [][NextSite]_vars

NextAcct == SdkCountMessages \/ SdkCountContent \/ SdkCountTools \/ Return

\* The accountant called with tools only.
NextTools == SdkCountTools \/ Return

SpecTools == Init /\ [][NextTools]_vars

SpecAcct == Init /\ [][NextAcct]_vars

----------------------------------------------------------------------------
(* The claims about the engine.                                            *)

\* C1: decoding the tokens of the ordinary encoding of a text returns the
\* text: decode(encodeOrdinary(t)) = t for every text t.
C1_RoundTrip == op = "roundTrip" => res.str = text

\* C2: encode returns the same tokens (or fails the same way) as an engine
\* over the same encoding whose cache is empty, whatever the earlier calls
\* left in the cache.
C2_CacheIrrelevance ==
  op = "encode" =>
    LET fresh == encode(E, mergeCacheSize, <<>>, text,
                        allowedSpecial, disallowedSpecial)
    IN res.threw = fresh.threw /\ res.toks = fresh.out

\* An encode whose text is a piece an earlier call left in the cache, and
\* which returned the cached tokens.
C2_Witness ==
  /\ op = "encode"
  /\ ~res.threw
  /\ ~HasStringRank(E, text)
  /\ \E j \in 1..Len(cacheBefore) :
       cacheBefore[j].key = text /\ res.toks = cacheBefore[j].value
  /\ Len(res.toks) > 1

\* C3: bytePairMerge returns what the reference greedy procedure returns
\* from the single bytes of the piece: merge the leftmost adjacent pair of
\* minimum rank until no adjacent pair has a rank.
C3_MergeMatchesReference ==
  op = "bytePairMerge" => res.toks = RefBPE(E, SingleBytes(piece))

C5_DisallowedSpecialThrows ==
  LET allowedSet == IF allowedSpecial.all THEN SpecialKeySet(E)
                    ELSE allowedSpecial.set
      disallowedSet == IF disallowedSpecial.all
                         THEN SpecialKeySet(E) \ allowedSet
                         ELSE disallowedSpecial.set
  IN (op = "encode" /\ ContainsAny(text, disallowedSet)) => res.threw

\* C6: when the text contains an allowed special token literal, encode
\* emits the rank of the leftmost one as a single token, right after the
\* tokens of the text before it.
C6_AllowedSpecialEmitted ==
  LET allowedSet == IF allowedSpecial.all THEN SpecialKeySet(E)
                    ELSE allowedSpecial.set
      first == findNextAllowed(E, text, allowedSet, 1)
      before == encodeOrdinaryInto(E, mergeCacheSize, <<>>,
                                   SubSeq(text, 1, first.index - 1), <<>>).out
  IN (op = "encode" /\ ~res.threw /\ ContainsAny(text, allowedSet)) =>
       /\ Len(res.toks) > Len(before)
       /\ SubSeq(res.toks, 1, Len(before)) = before
       /\ res.toks[Len(before) + 1] = specialTokenRank(E, first.lit)

\* C7: encode and count throw only when the text contains a literal of the
\* disallowed set; otherwise they return tokens.
C7_ThrowsOnlyOnDisallowed ==
  LET allowedSet == IF allowedSpecial.all THEN SpecialKeySet(E)
                    ELSE allowedSpecial.set
      disallowedSet == IF disallowedSpecial.all
                         THEN SpecialKeySet(E) \ allowedSet
                         ELSE disallowedSpecial.set
  IN (op \in {"encode", "count"} /\ ~ContainsAny(text, disallowedSet)) =>
       ~res.threw

\* An encode that returned tokens for a text with a special token literal
\* in it, which is allowed while every other special token is disallowed.
C7_Witness ==
  /\ op = "encode"
  /\ ~allowedSpecial.all
  /\ disallowedSpecial.all
  /\ ContainsAny(text, allowedSpecial.set)
  /\ ~res.threw
  /\ res.toks # <<>>

\* C8: decode skips a rank that is neither in decoder nor a special token's
\* rank: it returns what it returns for the sequence without those ranks.
C8_DecodeSkipsUnknownRanks ==
  op = "decode" =>
    res.str = decode(E, SelectSeq(tokens, LAMBDA t : ~IsUnknownRank(E, t)))

\* A decode of an unknown rank between two tokens that hold the two bytes
\* of one character.
C8_Witness ==
  /\ op = "decode"
  /\ \E i \in 2..(Len(tokens) - 1) :
       /\ IsUnknownRank(E, tokens[i])
       /\ ~IsUnknownRank(E, tokens[i - 1]) /\ ~decoderValue(E, tokens[i - 1]).isString
       /\ ~IsUnknownRank(E, tokens[i + 1]) /\ ~decoderValue(E, tokens[i + 1]).isString
  /\ res.str = <<233>>

----------------------------------------------------------------------------
(* The claims about the accountant.                                        *)

\* C9: the total of a result of count is the model's baseOverhead plus the
\* totals of the result's messages plus the total of its tools.
C9_RootSumLaw ==
  (op = "sdkCount" /\ ~res.threw) =>
    countResult.total = options.model.tokens.baseOverhead
                          + SumTotals(countResult.messages)
                          + countResult.tools.total

\* A result with two messages of different totals and a tool, for a model
\* whose baseOverhead is not 0.
C9_Witness ==
  /\ op = "sdkCount"
  /\ ~res.threw
  /\ options.model.tokens.baseOverhead # 0
  /\ Len(countResult.messages) = 2
  /\ countResult.messages[1].total # countResult.messages[2].total
  /\ countResult.tools.total > 0

\* C10: the total of every message of a result is perMessage plus the
\* number of tokens of the message's role plus the totals of its content
\* parts, and so at least the sum of those totals when perMessage >= 0.
C10_MessageSumLaw ==
  (op = "sdkCount" /\ ~res.threw) =>
    /\ Len(countResult.messages) = Len(options.messages)
    /\ \A i \in 1..Len(countResult.messages) :
         LET m == countResult.messages[i]
             roleTokens == Len(encode(E, mergeCacheSize, <<>>,
                                      options.messages[i].role, Only({}), All).out)
         IN /\ m.total = options.model.tokens.perMessage + roleTokens
                           + SumTotals(m.content)
            /\ options.model.tokens.perMessage >= 0
                 => m.total >= SumTotals(m.content)

\* A message with the role "tool", of two tokens, and two content parts of
\* different totals, counted with a multiplier other than 1.
C10_Witness ==
  /\ op = "sdkCount"
  /\ ~res.threw
  /\ options.model.tokens.contentMultiplier.den = 2
  /\ \E i \in 1..Len(countResult.messages) :
       /\ options.messages[i].role = <<116, 111, 111, 108>>
       /\ Len(countResult.messages[i].content) = 2
       /\ countResult.messages[i].content[1].total > 0
       /\ countResult.messages[i].content[2].total
            > countResult.messages[i].content[1].total

\* C11: the total of the tools of a result is 0, and no definition is
\* recorded, when no tools are given or the tool set is empty; for n >= 1
\* tools it is toolsExist + perTool * (n - 1) plus the name, description
\* and inputSchema of every definition, and the definitions hold one entry
\* for each tool name.
C11_ToolsSumLaw ==
  (op = "sdkCount" /\ ~res.threw) =>
    LET entries == options.tools.entries
        n == Len(entries)
        config == options.model.tokens
        tools == countResult.tools
    IN IF ~options.tools.defined \/ n = 0
         THEN tools.total = 0 /\ DOMAIN tools.definitions = {}
         ELSE /\ DOMAIN tools.definitions = {entries[i].name : i \in 1..n}
              /\ tools.total = config.toolsExist + config.perTool * (n - 1)
                                 + SumDefinitions(tools.definitions)

\* Two tools whose definitions differ, counted for a model whose perTool
\* and toolsExist are not 0.
C11_Witness ==
  /\ op = "sdkCount"
  /\ ~res.threw
  /\ Len(options.tools.entries) = 2
  /\ options.model.tokens.perTool # 0
  /\ options.model.tokens.toolsExist # 0
  /\ \E a, b \in DOMAIN countResult.tools.definitions :
       /\ countResult.tools.definitions[a].inputSchema > 0
       /\ countResult.tools.definitions[b].inputSchema = 0
       /\ countResult.tools.definitions[a].description
            # countResult.tools.definitions[b].description

\* C12: for every text part of a message's content, and for a content that
\* is a string, the recorded total is the number r of tokens of the text
\* times contentMultiplier, rounded to the nearest integer with a half
\* rounded away from zero: r for the multiplier 1, 2r for 2.
C12_MultiplierLaw ==
  (op = "sdkCount" /\ ~res.threw) =>
    \A i \in 1..Len(options.messages) :
      LET content == options.messages[i].content
          recorded == countResult.messages[i].content
          multiplier == options.model.tokens.contentMultiplier
          r(str) == Len(encode(E, mergeCacheSize, <<>>, str, Only({}), All).out)
          scaled(str) == r(str) * multiplier.num
          rounded(str) ==       \* half away from zero
            IF scaled(str) >= 0
              THEN (2 * scaled(str) + multiplier.den) \div (2 * multiplier.den)
              ELSE -((-2 * scaled(str) + multiplier.den) \div (2 * multiplier.den))
          law(str, entry) ==
            /\ entry.type = "text"
            /\ entry.total = rounded(str)
            /\ (multiplier.num = multiplier.den) => entry.total = r(str)
            /\ (multiplier.num = 2 * multiplier.den) => entry.total = 2 * r(str)
          emits(part) ==
            part.type \in {"text", "tool-call", "tool-result", "image", "file"}
          index(j) == Cardinality({k \in 1..j : emits(content.parts[k])})
      IN IF content.kind = "string"
           THEN content.str # <<>> => law(content.str, recorded[1])
           ELSE \A j \in 1..Len(content.parts) :
                  content.parts[j].type = "text" =>
                    law(content.parts[j].text, recorded[index(j)])

\* A text part of one token after a part that records nothing, counted
\* with the multiplier 1.5: its total is 2.
C12_Witness ==
  /\ op = "sdkCount"
  /\ ~res.threw
  /\ options.model.tokens.contentMultiplier = [num |-> 3, den |-> 2]
  /\ Len(options.messages) = 1
  /\ options.messages[1].content.kind = "array"
  /\ Len(options.messages[1].content.parts) = 2
  /\ options.messages[1].content.parts[1].type = "reasoning"
  /\ options.messages[1].content.parts[2] = TextPart(<<97>>)
  /\ countResult.messages[1].content = <<[type |-> "text", total |-> 2]>>

\* C13: in a result, the total of every tool-result part is at least its
\* output and the total of every tool-call part is at least its input.
C13_PartTotalsDominate ==
  (op = "sdkCount" /\ ~res.threw) =>
    \A i \in 1..Len(countResult.messages) :
      \A j \in 1..Len(countResult.messages[i].content) :
        LET entry == countResult.messages[i].content[j]
        IN /\ entry.type = "tool-result" => entry.total >= entry.output
           /\ entry.type = "tool-call" => entry.total >= entry.input

\* A tool-result part and a tool-call part in one message, each with an id
\* or name and a value that have tokens: the totals exceed the output and
\* the input, which are not 0.
C13_Witness ==
  /\ op = "sdkCount"
  /\ ~res.threw
  /\ options.model.tokens.contentMultiplier.den = 2
  /\ \E i \in 1..Len(countResult.messages) :
       \E j, k \in 1..Len(countResult.messages[i].content) :
         LET a == countResult.messages[i].content[j]
             b == countResult.messages[i].content[k]
         IN /\ a.type = "tool-result" /\ a.output > 0 /\ a.total > a.output
            /\ b.type = "tool-call" /\ b.input > 0 /\ b.total > b.input

\* C14: the walk of an object schema whose single property w is an object
\* with the properties P is the walk of the object with the properties P,
\* plus the tokens of w, perFirstProp, perNestedObject and, when w has a
\* description d, perPropDesc and the tokens of d.
C14_SchemaNestingLaw ==
  (op = "sdkCount" /\ ~res.threw) =>
    \A i \in 1..Len(options.tools.entries) :
      LET entry == options.tools.entries[i]
          schema == entry.tool.inputSchema
          config == options.model.tokens
          fresh == [cache |-> <<>>, threw |-> FALSE]
          tokensOf(str) == encodeLength(E, mergeCacheSize, fresh, str).n
          walk(s) == countZodSchemaProperties(E, mergeCacheSize, fresh, s,
                                              config).tokens
      IN (/\ schema.exists
          /\ schema.def.type = "object"
          /\ Len(schema.def.shape) = 1
          /\ schema.def.shape[1].value.def.type = "object") =>
           LET w == schema.def.shape[1].key
               wrapped == schema.def.shape[1].value
               d == wrapped.description
           IN countResult.tools.definitions[entry.name].inputSchema
                = walk(ObjectSchema(wrapped.def.shape)) + tokensOf(w)
                    + config.perFirstProp + config.perNestedObject
                    + (IF d # <<>> THEN config.perPropDesc + tokensOf(d) ELSE 0)

\* A tool whose input schema wraps an object of one property, with a
\* description, for a model whose perNestedObject and perPropDesc are not
\* 0.
C14_Witness ==
  /\ op = "sdkCount"
  /\ ~res.threw
  /\ options.model.tokens.perNestedObject # 0
  /\ options.model.tokens.perPropDesc # 0
  /\ \E i \in 1..Len(options.tools.entries) :
       LET schema == options.tools.entries[i].tool.inputSchema
       IN /\ schema.exists
          /\ schema.def.type = "object"
          /\ Len(schema.def.shape) = 1
          /\ schema.def.shape[1].value.def.type = "object"
          /\ schema.def.shape[1].value.description # <<>>
          /\ Len(schema.def.shape[1].value.def.shape) = 1
          /\ countResult.tools.definitions[options.tools.entries[i].name].inputSchema
               > 0

----------------------------------------------------------------------------
(* The claims about the piece cache and the merge.                         *)

\* C15: the piece cache never holds more entries than the capacity the
\* engine was constructed with, the capacity 0 included.
C15_CacheBound == Len(mergeCache) <= mergeCacheSize

\* C16: a call evicts from the piece cache in insertion order and a hit
\* reorders nothing: the entries of the cache before the call that are
\* still there after it are its newest ones, unchanged and in their order,
\* at the head of the cache; and when the call evicted anything, the cache
\* was full and the first entry the call added is a piece that missed.
C16_EvictionOrder ==
  [][(op = "idle" /\ op' # "idle") =>
       \E k \in 0..Len(mergeCache) :
         LET kept == Len(mergeCache) - k
         IN /\ Len(mergeCache') >= kept
            /\ SubSeq(mergeCache', 1, kept)
                 = SubSeq(mergeCache, k + 1, Len(mergeCache))
            /\ k > 0 =>
                 /\ Len(mergeCache') > kept
                 /\ Len(mergeCache') >= mergeCacheSize
                 /\ ~CacheHas(mergeCache, mergeCache'[kept + 1].key)]_vars

\* A call on a full cache of two entries missed once: the older entry is
\* gone, the newer one is first and the piece of the miss is last.
C16_Witness ==
  /\ op # "idle"
  /\ mergeCacheSize = 2
  /\ Len(cacheBefore) = 2
  /\ Len(mergeCache) = 2
  /\ mergeCache[1] = cacheBefore[2]
  /\ ~CacheHas(cacheBefore, mergeCache[2].key)

\* C17: bytePairMerge emits one rank for each sub-token its merge loop ends
\* with, in order, and each rank is the rank of the bytes of its sub-token,
\* so that the bytes of the emitted ranks concatenate to the piece.
C17_LosslessEmission ==
  op = "bytePairMerge" =>
    /\ Len(res.toks) = Len(FinalSubTokens(E, piece))
    /\ \A j \in 1..Len(res.toks) :
         BytesOfRank(E, res.toks[j]) = FinalSubTokens(E, piece)[j]

----------------------------------------------------------------------------
(* The claims about the scan for special tokens.                           *)

\* The first position at or after `from` where a literal of A occurs.
NextOccurrence(str, A, from) ==
  LET at == {j \in from..Len(str) : \E lit \in A : OccursAt(str, lit, j)}
      index == CHOOSE j \in at : \A k \in at : j <= k
  IN IF at = {} THEN [found |-> FALSE, index |-> 0, lit |-> <<>>]
     ELSE [found |-> TRUE, index |-> index,
           lit |-> CHOOSE lit \in A : OccursAt(str, lit, index)]

\* encode_ordinary(span_0), rank(s_1), encode_ordinary(span_1), ... for the
\* left-to-right non-overlapping occurrences s_1, s_2, ... of literals of A
\* in str from position `from` on.
RECURSIVE SpansAndSpecials(_, _, _, _)
SpansAndSpecials(e, str, A, from) ==
  LET s == NextOccurrence(str, A, from)
      ordinary(span) == encodeOrdinary(e, 0, <<>>, span).out
  IN IF ~s.found THEN ordinary(SubSeq(str, from, Len(str)))
     ELSE ordinary(SubSeq(str, from, s.index - 1))
            \o <<specialTokenRank(e, s.lit)>>
            \o SpansAndSpecials(e, str, A, s.index + Len(s.lit))

----------------------------------------------------------------------------
(* The claims about the parts of a message's content.                      *)

\* C19: for every message whose content is a string, the empty string
\* included, the result holds exactly one content entry, of type "text",
\* whose total is the rounded product of the number of tokens of the
\* content and contentMultiplier.
C19_StringContentOneTextPart ==
  (op = "sdkCount" /\ ~res.threw) =>
    \A i \in 1..Len(options.messages) :
      LET content == options.messages[i].content
          r == Len(encode(E, mergeCacheSize, <<>>, content.str, Only({}), All).out)
      IN content.kind = "string" =>
           countResult.messages[i].content
             = << [type |-> "text",
                   total |-> MathRound(r, options.model.tokens.contentMultiplier)] >>

\* C20: for every tool-call part whose input is a value JSON.stringify
\* serializes, the recorded input is the rounded product of the number of
\* tokens of the serialized input and contentMultiplier, and the recorded
\* total is the rounded product of the tokens of the serialized input and
\* of the tool name together and contentMultiplier.
C20_ToolCallFormula ==
  (op = "sdkCount" /\ ~res.threw) =>
    \A i \in 1..Len(options.messages) :
      LET content == options.messages[i].content
          recorded == countResult.messages[i].content
          multiplier == options.model.tokens.contentMultiplier
          r(str) == Len(encode(E, mergeCacheSize, <<>>, str, Only({}), All).out)
          emits(part) ==
            part.type \in {"text", "tool-call", "tool-result", "image", "file"}
          index(j) == Cardinality({k \in 1..j : emits(content.parts[k])})
          law(part, entry) ==
            /\ entry.type = "tool-call"
            /\ entry.input = MathRound(r(JSONstringify(part.input)), multiplier)
            /\ entry.total = MathRound(r(JSONstringify(part.input))
                                         + r(part.toolName), multiplier)
      IN content.kind = "array" =>
           \A j \in 1..Len(content.parts) :
             (content.parts[j].type = "tool-call"
                /\ content.parts[j].input.kind # "undefined") =>
               law(content.parts[j], recorded[index(j)])

\* C21: with a model whose tokens omit contentMultiplier, count returns
\* what it returns with the contentMultiplier 1: every content part's total
\* is its number of tokens, and no total of the result is NaN.
C21_DefaultMultiplier ==
  (op = "sdkCount" /\ ~res.threw
     /\ options.model.tokens.contentMultiplier = Undefined) =>
    /\ countResult
         = sdkCount(E, mergeCacheSize, cacheBefore,
                    [options EXCEPT !.model.tokens.contentMultiplier =
                                      [num |-> 1, den |-> 1]]).result
    /\ countResult.total # NaN
    /\ \A i \in 1..Len(countResult.messages) :
         /\ countResult.messages[i].total # NaN
         /\ \A j \in 1..Len(countResult.messages[i].content) :
              countResult.messages[i].content[j].total # NaN

----------------------------------------------------------------------------
(* The claims about the walk of a schema.                                  *)

\* What the positions of the properties add to the walk of a schema: for
\* every object with n >= 1 properties that is the root, the value of a
\* property or the element of an array that is the value of a property,
\* perFirstProp once and perAdditionalProp n - 1 times.
RECURSIVE PositionOverhead(_, _)
PositionOverhead(schema, config) ==
  IF ~schema.exists \/ schema.def.type # "object" THEN 0
  ELSE
    LET shape == schema.def.shape
        n == Len(shape)
        child(value) ==
          IF value.def.type = "object" THEN PositionOverhead(value, config)
          ELSE IF value.def.type = "array"
            THEN PositionOverhead(value.def.element, config)
          ELSE 0
        RECURSIVE children(_)
        children(i) ==
          IF i > n THEN 0 ELSE child(shape[i].value) + children(i + 1)
    IN (IF n >= 1 THEN config.perFirstProp + (n - 1) * config.perAdditionalProp
        ELSE 0)
         + children(1)

C23_ArrayElementSubtree ==
  (op = "sdkCount" /\ ~res.threw) =>
    \A i \in 1..Len(options.tools.entries) :
      LET entry == options.tools.entries[i]
          schema == entry.tool.inputSchema
          config == options.model.tokens
          fresh == [cache |-> <<>>, threw |-> FALSE]
          walk(s) == countZodSchemaProperties(E, mergeCacheSize, fresh, s,
                                              config).tokens
          subtree(element) ==
            IF ~element.exists THEN 0
            ELSE IF element.def.type = "enum"
              THEN config.perEnum
                     + EnumLoop(E, mergeCacheSize, fresh, element.def.values, 1, 0).n
            ELSE IF element.def.type = "array" /\ element.def.element.exists
                      /\ element.def.element.def.type = "object"
              THEN config.perArrayOfObjects + walk(element.def.element)
            ELSE 0
      IN (schema.exists /\ schema.def.type = "object") =>
           \A j \in 1..Len(schema.def.shape) :
             LET value == schema.def.shape[j].value
                 scalar == [value EXCEPT !.def.element = StringSchema]
             IN (/\ value.def.type = "array"
                 /\ value.def.element.exists
                 /\ value.def.element.def.type # "object") =>
                  countResult.tools.definitions[entry.name].inputSchema
                    = walk([schema EXCEPT !.def.shape[j].value = scalar])
                        + subtree(value.def.element)

\* C24: count fails with an error, and returns no result, when the input
\* schema of a tool is a node that the data model has no place for: a root
\* that is not an object, or a root or a property without a type
\* definition.
C24_InvalidSchemaNodeSurfaced ==
  LET invalid(schema) ==
        /\ schema.exists
        /\ \/ schema.def.type # "object"
           \/ \E j \in 1..Len(schema.def.shape) :
                schema.def.shape[j].value.def.type = "none"
  IN (op = "sdkCount"
        /\ \E i \in 1..Len(options.tools.entries) :
             invalid(options.tools.entries[i].tool.inputSchema))
       => res.threw

----------------------------------------------------------------------------
(* The claims that compare calls.                                          *)

Orders(seq) ==
  {[i \in 1..Len(seq) |-> seq[f[i]]] :
     f \in {g \in [1..Len(seq) -> 1..Len(seq)] :
              \A i, j \in 1..Len(seq) : g[i] = g[j] => i = j}}

\* The schemas that differ from a schema in the order of the properties of
\* its objects: of the root, of the objects that are its properties and of
\* the objects that are the elements of its arrays.
RECURSIVE Reordered(_)
Reordered(schema) ==
  IF ~schema.exists THEN {schema}
  ELSE IF schema.def.type = "object" THEN
    LET shape == schema.def.shape
        inner == {s \in [1..Len(shape) -> UNION {Reordered(shape[i].value) :
                                                   i \in 1..Len(shape)}] :
                    \A i \in 1..Len(shape) : s[i] \in Reordered(shape[i].value)}
    IN UNION {{[schema EXCEPT !.def.shape = p] :
                 p \in Orders([i \in 1..Len(shape) |->
                                       [key |-> shape[i].key, value |-> s[i]]])} :
              s \in inner}
  ELSE IF schema.def.type = "array" THEN
    {[schema EXCEPT !.def.element = element] :
       element \in Reordered(schema.def.element)}
  ELSE {schema}

\* C29: the total of the tools and the definitions of a result are the
\* same for every order of the tools, and the inputSchema count of a tool
\* is the same for every order of the properties of the objects of its
\* schema.
C29_OrderIndependence ==
  (op = "sdkCount" /\ ~res.threw /\ options.tools.defined) =>
    LET config == options.model.tokens
        fresh == [cache |-> <<>>, threw |-> FALSE]
        entries == options.tools.entries
    IN /\ \A p \in Orders(entries) :
            LET permuted == countToolsTokensDetailed(E, mergeCacheSize, fresh,
                                                     Tools(p), config)
            IN /\ permuted.total = countResult.tools.total
               /\ permuted.definitions = countResult.tools.definitions
       /\ \A i \in 1..Len(entries) :
            \A schema \in Reordered(entries[i].tool.inputSchema) :
              countZodSchemaProperties(E, mergeCacheSize, fresh, schema,
                                       config).tokens
                = countResult.tools.definitions[entries[i].name].inputSchema

\* Two tools with different definitions, and a tool whose schema has two
\* properties that count differently, one of them an object: the counts
\* are those of the other order too.
C29_Witness ==
  /\ op = "sdkCount"
  /\ ~res.threw
  /\ options.model.tokens.perFirstProp # options.model.tokens.perAdditionalProp
  /\ \/ /\ Len(options.tools.entries) = 2
        /\ options.model.tokens.perTool # 0
        /\ countResult.tools.definitions[options.tools.entries[1].name]
             # countResult.tools.definitions[options.tools.entries[2].name]
     \/ /\ Len(options.tools.entries) = 1
        /\ options.tools.entries[1].tool.inputSchema.exists
        /\ options.tools.entries[1].tool.inputSchema.def.type = "object"
        /\ Len(options.tools.entries[1].tool.inputSchema.def.shape) = 2
        /\ options.tools.entries[1].tool.inputSchema.def.shape[1].value.def.type
             = "object"
        /\ options.tools.entries[1].tool.inputSchema.def.shape[2].value.def.type
             = "enum"

\* C30: a count with the contentMultiplier 1 in the place of the model's
\* own (1, 1.5 or 2), and the same engine, messages, tools and other
\* coefficients, fails or returns alike, returns
\* the same tools, and for every message the same total less its content
\* totals, and content entries of the same types that differ at most in
\* the totals, inputs and outputs of text, tool-call and tool-result parts
\* (an image counts 85 and a file 100 in both).
C30_MultiplierScope ==
  op = "sdkCount" =>
    \A multiplier \in {[num |-> 1, den |-> 1]} :
      LET other == sdkCount(E, mergeCacheSize, cacheBefore,
                            [options EXCEPT !.model.tokens.contentMultiplier =
                                              multiplier])
          rest(message) == message.total - SumTotals(message.content)
          emits(part) ==
            part.type \in {"text", "tool-call", "tool-result", "image", "file"}
      IN /\ other.threw = res.threw
         /\ ~res.threw =>
              /\ other.result.tools = countResult.tools
              /\ Len(other.result.messages) = Len(countResult.messages)
              /\ \A i \in 1..Len(countResult.messages) :
                   LET mine == countResult.messages[i]
                       theirs == other.result.messages[i]
                       content == options.messages[i].content
                       index(j) ==
                         Cardinality({k \in 1..j : emits(content.parts[k])})
                   IN /\ rest(theirs) = rest(mine)
                      /\ Len(theirs.content) = Len(mine.content)
                      /\ \A j \in 1..Len(mine.content) :
                           theirs.content[j].type = mine.content[j].type
                      /\ content.kind = "array" =>
                           \A j \in 1..Len(content.parts) :
                             content.parts[j].type \in {"image", "file"} =>
                               theirs.content[index(j)] = mine.content[index(j)]

\* A message with a text part of one token counted with the multiplier 2:
\* the part's total is 2, it would be 1 with the multiplier 1, and the rest
\* of the message's total is the same.
C30_Witness ==
  /\ op = "sdkCount"
  /\ ~res.threw
  /\ options.model.tokens.contentMultiplier = [num |-> 2, den |-> 1]
  /\ Len(countResult.messages) = 1
  /\ countResult.messages[1].content = <<[type |-> "text", total |-> 2]>>
  /\ countResult.messages[1].total
       = 2 + options.model.tokens.perMessage + 1

\* C25: NaN is never persisted: whichever way the calibration script writes
\* the config document, with a newly measured config or with an existing one
\* whose name, limits and pricing it refreshed, no config of the document it
\* wrote has a NaN numeric field (which the file shows as null).
C25_NaNNeverPersisted ==
  driver.pc = "loop" =>
    \A id \in DOMAIN driver.saved :
      LET config == driver.saved[id]
          written == stringify(driver.saved)[id]
      IN config # Undefined =>
           /\ validateConfig(config)
           /\ \A k \in DOMAIN written.tokens : written.tokens[k].json = "number"
           /\ written.contextWindow.json = "number"
           /\ written.maxTokens.json = "number"
           /\ \A k \in DOMAIN written.pricing : written.pricing[k].json = "number"

\* C26: a measurement that fails keeps the old config: when a model's
\* measuring throws, or a coefficient derived for it is negative, the document
\* holds for that model exactly what it held before the run.
C26_FailureKeepsOldConfig ==
  driver.pc = "loop" =>
    \A id \in DOMAIN driver.measured :
      LET m == driver.measured[id]
          failed == /\ m # Undefined
                    /\ \/ "threw" \in DOMAIN m
                       \/ \E k \in DOMAIN m.tokens :
                            m.tokens[k] # NaN /\ m.tokens[k] < 0
      IN failed => stringify(driver.saved)[id] = stringify(driver.loaded)[id]

\* C27: the demo page's queue: however the user's events (typing, pasting,
\* clearing the input, changing the model, the tokenize button) and the
\* worker's replies (tokens, error) interleave, no second 'tokenize' request is
\* posted to the worker while an earlier one has not been answered: at most
\* one request is waiting at the worker or has its reply waiting at the page.
C27_OneTokenizeInFlight ==
  LET unanswered == {j \in 1..Len(page.toWorker) :
                       page.toWorker[j].type = "tokenize"}
      unread == {j \in 1..Len(page.toPage) : page.toPage[j].of = "tokenize"}
  IN Cardinality(unanswered) + Cardinality(unread) <= 1

====
